---- MODULE Spec2Model ----
(***************************************************************************)
(* ScholarSync (Project-3/Scholar_Sync): the query pipeline, the title     *)
(* de-duplication, the similarity network, the retrying JSON request, the  *)
(* enrichment passes and the title match of the upload path, the search    *)
(* over the two backends and the section extractor.                        *)
(*                                                                         *)
(* Strings are sequences of one-character strings, so that lower(),        *)
(* strip() and re.sub() are computed character by character.  Similarities *)
(* and weights are in hundredths (0.12 is 12), delays in tenths of a       *)
(* second (0.6 s is 6).                                                    *)
(***************************************************************************)
EXTENDS Integers, Sequences, FiniteSets, TLC

VARIABLES
    \* utils/text.py, dedupe_by_title(items, title_getter)
    items, didx, output, seen, dpc,
    \* pipeline.py, analyze_query(query, max_results, start_year, end_year)
    max_results, start_year, end_year, searched, papers, results, qpc,
    \* corpus_analyzer.py, paper_network_figure(analyses)
    n_papers, sim, figure, gpc,
    \* upload_analyzer.py, _request_json_with_retries(url, params, attempts, timeout)
    attempts, attempt, log, sleeps, result, raised, rpc,
    \* upload_analyzer.py, the enrichment passes of analyze_uploaded_paper
    doi, titles, epass, calls, enrich, epc,
    \* upload_analyzer.py, _best_title_match(query_title, items)
    query_title, cands, ranked, best, mpc,
    \* services/paper_search.py, safe_search(query, max_results)
    search_max, arxiv_env, s2_env, arxiv_hits, s2_hits, backend_calls,
    search_papers, returned, search_error, spc,
    \* analyzers/section_extractor.py, SectionExtractor.extract(abstract)
    abstract, sentences, section_text, future_work, extracted, xpc,
    \* upload_analyzer.py, _format_section_output(sections)
    fmt_in, cleaned, fpc,
    \* upload_analyzer.py, analyze_uploaded_paper(file_path, filename)
    upload_text, merged, upload_result, upc

dedupeVars == <<items, didx, output, seen, dpc>>
queryVars == <<max_results, start_year, end_year, searched, papers, results, qpc>>
graphVars == <<n_papers, sim, figure, gpc>>
fetchVars == <<attempts, attempt, log, sleeps, result, raised, rpc>>
enrichVars == <<doi, titles, epass, calls, enrich, epc>>
matchVars == <<query_title, cands, ranked, best, mpc>>
searchVars ==
    <<search_max, arxiv_env, s2_env, arxiv_hits, s2_hits, backend_calls,
      search_papers, returned, search_error, spc>>
extractVars == <<abstract, sentences, section_text, future_work, extracted, xpc>>
formatVars == <<fmt_in, cleaned, fpc>>
uploadVars == <<upload_text, merged, upload_result, upc>>
vars ==
    <<dedupeVars, queryVars, graphVars, fetchVars, enrichVars, matchVars, searchVars,
      extractVars, formatVars, uploadVars>>

\* Optional values: None is the empty tuple, a present value x is <<x>>.
None == <<>>
Some(x) == <<x>>
Val(o) == o[1]

(***************************************************************************)
(* Bounds of the model                                                     *)
(***************************************************************************)
MaxItems == 3
MaxPapers == 3
MaxResults == 2
MaxNodes == 4
MaxAttempts == 3

(***************************************************************************)
(* utils/text.py                                                           *)
(***************************************************************************)
\* The class \s, on ASCII
Whitespace == {" ", "\t", "\n"}
\* The characters of the class [a-z0-9]
LowerAlnum ==
    {"a", "b", "c", "d", "e", "f", "g", "h", "i", "j", "k", "l", "m",
     "n", "o", "p", "q", "r", "s", "t", "u", "v", "w", "x", "y", "z",
     "0", "1", "2", "3", "4", "5", "6", "7", "8", "9"}
\* str.lower() on the ASCII letters: the lowercase of each uppercase letter
LowerOfUpper ==
    [A |-> "a", B |-> "b", C |-> "c", D |-> "d", E |-> "e", F |-> "f",
     G |-> "g", H |-> "h", I |-> "i", J |-> "j", K |-> "k", L |-> "l",
     M |-> "m", N |-> "n", O |-> "o", P |-> "p", Q |-> "q", R |-> "r",
     S |-> "s", T |-> "t", U |-> "u", V |-> "v", W |-> "w", X |-> "x",
     Y |-> "y", Z |-> "z"]

\* str.lower() on one character
LowerChar(c) == IF c \in DOMAIN LowerOfUpper THEN LowerOfUpper[c] ELSE c

\* str.lower()
Lower(s) ==
    LET f == [i \in 1..Len(s) |-> LowerChar(s[i])]
    IN  SubSeq(f, 1, Len(s))

RECURSIVE LStrip(_)
LStrip(s) ==
    IF s # <<>> /\ Head(s) \in Whitespace THEN LStrip(Tail(s)) ELSE s

RECURSIVE RStrip(_)
RStrip(s) ==
    IF s # <<>> /\ s[Len(s)] \in Whitespace
    THEN RStrip(SubSeq(s, 1, Len(s) - 1))
    ELSE s

\* str.strip()
Strip(s) == RStrip(LStrip(s))

\* re.sub(r"\s+", " ", text): every maximal run of whitespace becomes one
\* space; a run that is one space already stays as it is
RECURSIVE CollapseWhitespace(_)
CollapseWhitespace(s) ==
    LET runs == {i \in 1..Len(s) :
                    /\ s[i] \in Whitespace
                    /\ s[i] # " " \/ (i < Len(s) /\ s[i + 1] \in Whitespace)}
        first == CHOOSE i \in runs : \A k \in runs : i <= k
    IN  IF runs = {} THEN s
        ELSE SubSeq(s, 1, first - 1) \o <<" ">>
                 \o CollapseWhitespace(LStrip(SubSeq(s, first, Len(s))))

\* re.sub(r"[^a-z0-9 ]", "", text)
KeepAlnumSpace(s) == SelectSeq(s, LAMBDA c : c \in LowerAlnum \cup {" "})

normalize_title(text) ==
    KeepAlnumSpace(CollapseWhitespace(Strip(Lower(text))))

(***************************************************************************)
(* models.py: a Paper, as far as the pipeline reads it                     *)
(***************************************************************************)
\* pipeline.py:17, the title_getter "lambda p: p.title"
PaperTitle(p) == p.title

\* The loop body of dedupe_by_title without seen.add(key).
DedupeBodyForgetsSeen(item, st) ==
    LET key == normalize_title(PaperTitle(item))
    IN  IF key \in st.seen
        THEN st
        ELSE [seen |-> st.seen, output |-> Append(st.output, item)]

\* One iteration of "for item in items": st is the pair (seen, output).
DedupeBody(item, st) ==
    LET key == normalize_title(PaperTitle(item))
    IN  IF key \in st.seen
        THEN st
        ELSE [seen |-> st.seen \cup {key}, output |-> Append(st.output, item)]

RECURSIVE DedupeLoop(_, _)
DedupeLoop(its, st) ==
    IF its = <<>> THEN st
    ELSE DedupeLoop(Tail(its), DedupeBody(Head(its), st))

dedupe_by_title(its) == DedupeLoop(its, [seen |-> {}, output |-> <<>>]).output

\* Titles the searches and the callers of dedupe_by_title hand in: the same
\* words in other letter case, with punctuation, with other whitespace.
TitlePool ==
    { <<"A", "b">>, <<"a", "b">>, <<"A", "B", "!">>, <<"a", " ", "b">>,
      <<"a", "\t", " ", "b">>, <<" ", "a", "b", " ">>, <<"a", " ", "!", " ", "b">>,
      <<"a", "b", " ", "!">>, <<"x">> }

SeqsUpTo(S, n) == UNION {[1..k -> S] : k \in 0..n}

(***************************************************************************)
(* dedupe_by_title, one loop iteration per step                            *)
(***************************************************************************)
DedupeItems == {[title |-> t, year |-> None, citations |-> None] : t \in TitlePool}

DedupeInit ==
    /\ items \in SeqsUpTo(DedupeItems, MaxItems)
    /\ didx = 1
    /\ output = <<>>
    /\ seen = {}
    /\ dpc = "loop"

\* for item in items: ...
DedupeStep ==
    /\ dpc = "loop"
    /\ didx <= Len(items)
    /\ LET st == DedupeBody(items[didx], [seen |-> seen, output |-> output])
       IN  /\ seen' = st.seen
           /\ output' = st.output
    /\ didx' = didx + 1
    /\ UNCHANGED <<items, dpc>>

\* return output
DedupeReturn ==
    /\ dpc = "loop"
    /\ didx > Len(items)
    /\ dpc' = "done"
    /\ UNCHANGED <<items, didx, output, seen>>

DedupeIdle ==
    /\ items = <<>>
    /\ didx = 1
    /\ output = <<>>
    /\ seen = {}
    /\ dpc = "idle"

(***************************************************************************)
(* pipeline.py: analyze_query and _filter_by_year                          *)
(***************************************************************************)
\* The filter with a strict lower comparison (<= where the code has <).
FilterKeepsStrict(paper, s, e) ==
    /\ paper.year # None
    /\ ~(s # None /\ Val(paper.year) <= Val(s))
    /\ ~(e # None /\ Val(paper.year) > Val(e))

\* The three "continue" tests of the loop of _filter_by_year.
FilterKeeps(paper, s, e) ==
    /\ paper.year # None
    /\ ~(s # None /\ Val(paper.year) < Val(s))
    /\ ~(e # None /\ Val(paper.year) > Val(e))

\* The filter without its early return for "no bound given".
FilterAlwaysLoops(ps, s, e) ==
    SelectSeq(ps, LAMBDA p : FilterKeeps(p, s, e))

\* A filter that removes the repeated titles before it looks at the years.
FilterDedupesFirst(ps, s, e) ==
    IF s = None /\ e = None
    THEN ps
    ELSE SelectSeq(dedupe_by_title(ps), LAMBDA p : FilterKeeps(p, s, e))

_filter_by_year(ps, s, e) ==
    IF s = None /\ e = None
    THEN ps
    ELSE SelectSeq(ps, LAMBDA p : FilterKeeps(p, s, e))

\* The slice taken one too long.
TruncateKeepsOneMore(ps, n) == SubSeq(ps, 1, IF Len(ps) < n + 1 THEN Len(ps) ELSE n + 1)

\* papers[:max_results]
Truncate(ps, n) == SubSeq(ps, 1, IF Len(ps) < n THEN Len(ps) ELSE n)

\* pipeline.py:25-29
CitationText(paper) ==
    IF paper.citations # None
    THEN [text |-> "Cited by approximately {n} papers (source metadata).",
          n |-> Val(paper.citations)]
    ELSE [text |-> "Citation count unavailable in source metadata."]

\* The PaperAnalysis of one paper.  Its section fields are
\* SectionExtractor.extract(paper.abstract), a function of the abstract alone.
Analysis(paper) == [paper |-> paper, citations |-> CitationText(paper)]

\* The requests and the search results of the model: bounds such that a year
\* lies below, on and above them; two titles with one key and a third; a
\* paper with a citation count (Semantic Scholar) and papers without (arXiv).
Years == 2019..2021
StartYears == {None, Some(2020)}
EndYears == {None, Some(2020), Some(2021)}
QueryTitles == { <<"A", "b">>, <<"a", "b", "!">>, <<"x">> }
QueryPapers ==
    { [title |-> t, year |-> y,
       citations |-> IF t = <<"x">> THEN Some(7) ELSE None] :
      t \in QueryTitles, y \in {None} \cup {Some(n) : n \in Years} }

QueryInit ==
    /\ max_results \in 1..MaxResults
    /\ start_year \in StartYears
    /\ end_year \in EndYears
    /\ searched = <<>>
    /\ papers = <<>>
    /\ results = <<>>
    /\ qpc = "search"

\* papers = PaperSearchService.safe_search(query, max_results)
QuerySearch ==
    /\ qpc = "search"
    /\ \E found \in SeqsUpTo(QueryPapers, MaxPapers) :
          /\ searched' = found
          /\ papers' = found
    /\ qpc' = "filter"
    /\ UNCHANGED <<max_results, start_year, end_year, results>>

\* papers = _filter_by_year(papers, start_year, end_year)
QueryFilter ==
    /\ qpc = "filter"
    /\ papers' = _filter_by_year(papers, start_year, end_year)
    /\ qpc' = "dedupe"
    /\ UNCHANGED <<max_results, start_year, end_year, searched, results>>

\* papers = dedupe_by_title(papers, lambda p: p.title)
QueryDedupe ==
    /\ qpc = "dedupe"
    /\ papers' = dedupe_by_title(papers)
    /\ qpc' = "truncate"
    /\ UNCHANGED <<max_results, start_year, end_year, searched, results>>

\* papers = papers[:max_results]
QueryTruncate ==
    /\ qpc = "truncate"
    /\ papers' = Truncate(papers, max_results)
    /\ qpc' = "classify"
    /\ UNCHANGED <<max_results, start_year, end_year, searched, results>>

\* for paper in papers: results.append(PaperAnalysis(...)); return results
QueryClassify ==
    /\ qpc = "classify"
    /\ results' = [i \in 1..Len(papers) |-> Analysis(papers[i])]
    /\ qpc' = "done"
    /\ UNCHANGED <<max_results, start_year, end_year, searched, papers>>

QueryIdle ==
    /\ max_results = 1
    /\ start_year = None
    /\ end_year = None
    /\ searched = <<>>
    /\ papers = <<>>
    /\ results = <<>>
    /\ qpc = "idle"

(***************************************************************************)
(* corpus_analyzer.py: paper_network_figure                                *)
(*                                                                         *)
(* sim is cosine_similarity(TfidfVectorizer(...).fit_transform(abstracts)) *)
(* of scikit-learn, read at the pairs i < j only; the model takes it as    *)
(* given, in hundredths.                                                   *)
(***************************************************************************)
SimilarityThreshold == 12
FallbackWeight == 5
NodeBaseSize == 18
NodeDegreeSize == 3

NoPapersMessage == "No papers available for network graph."
OnePaperMessage == "At least 2 papers are required to build a network graph."

Pairs(n) == {pr \in (0..(n - 1)) \X (0..(n - 1)) : pr[1] < pr[2]}

\* A figure whose only content is the annotation, but drawn with one node.
FigureWithOneNode(message) ==
    [nodes |-> {0}, edges |-> {}, weight |-> <<>>, size |-> <<>>, message |-> Some(message)]

\* go.Figure() with no trace: its only content is the annotation.
_empty_figure(message) ==
    [nodes |-> {}, edges |-> {}, weight |-> <<>>, size |-> <<>>, message |-> Some(message)]

\* The threshold test with > where the code has >=.
EdgesStrictlyAbove(n, s) == {pr \in Pairs(n) : s[pr] > SimilarityThreshold}

\* for i in range(len(titles)): for j in range(i + 1, len(titles)):
\*     if weight >= 0.12: graph.add_edge(i, j, weight=weight)
EdgesAboveThreshold(n, s) == {pr \in Pairs(n) : s[pr] >= SimilarityThreshold}

\* The chain one edge short: range(len(titles) - 2).
ChainMissesLastNode(n) == {pr \in Pairs(n) : pr[2] = pr[1] + 1 /\ pr[2] < n - 1}

\* for i in range(len(titles) - 1): graph.add_edge(i, i + 1, weight=0.05)
ChainEdges(n) == {pr \in Pairs(n) : pr[2] = pr[1] + 1}

Degree(v, es) == Cardinality({pr \in es : pr[1] = v \/ pr[2] = v})

SimValues == {11, 12, 90}

GraphInit ==
    /\ n_papers \in 0..MaxNodes
    /\ sim \in [Pairs(n_papers) -> SimValues]
    /\ figure = [nodes |-> {}, edges |-> {}, weight |-> <<>>, size |-> <<>>, message |-> None]
    /\ gpc = "start"

\* if not analyses: return _empty_figure(...)
GraphNoPapers ==
    /\ gpc = "start"
    /\ n_papers = 0
    /\ figure' = _empty_figure(NoPapersMessage)
    /\ gpc' = "done"
    /\ UNCHANGED <<n_papers, sim>>

\* if len(analyses) == 1: return _empty_figure(...)
GraphOnePaper ==
    /\ gpc = "start"
    /\ n_papers = 1
    /\ figure' = _empty_figure(OnePaperMessage)
    /\ gpc' = "done"
    /\ UNCHANGED <<n_papers, sim>>

\* for idx, title in enumerate(titles): graph.add_node(idx, label=title)
GraphAddNodes ==
    /\ gpc = "start"
    /\ n_papers >= 2
    /\ figure' = [figure EXCEPT !.nodes = 0..(n_papers - 1)]
    /\ gpc' = "edges"
    /\ UNCHANGED <<n_papers, sim>>

\* the double loop over i < j
GraphAddEdges ==
    /\ gpc = "edges"
    /\ LET es == EdgesAboveThreshold(n_papers, sim)
       IN  figure' = [figure EXCEPT !.edges = es, !.weight = [pr \in es |-> sim[pr]]]
    /\ gpc' = "fallback"
    /\ UNCHANGED <<n_papers, sim>>

\* if graph.number_of_edges() == 0: the chain
GraphChainFallback ==
    /\ gpc = "fallback"
    /\ figure.edges = {}
    /\ LET es == ChainEdges(n_papers)
       IN  figure' = [figure EXCEPT !.edges = es, !.weight = [pr \in es |-> FallbackWeight]]
    /\ gpc' = "layout"
    /\ UNCHANGED <<n_papers, sim>>

GraphKeepEdges ==
    /\ gpc = "fallback"
    /\ figure.edges # {}
    /\ gpc' = "layout"
    /\ UNCHANGED <<n_papers, sim, figure>>

\* the node trace: node_size.append(18 + (degree * 3)); return fig
GraphLayout ==
    /\ gpc = "layout"
    /\ figure' = [figure EXCEPT !.size =
                     [v \in figure.nodes |->
                         NodeBaseSize + Degree(v, figure.edges) * NodeDegreeSize]]
    /\ gpc' = "done"
    /\ UNCHANGED <<n_papers, sim>>

GraphIdle ==
    /\ n_papers = 0
    /\ sim = <<>>
    /\ figure = [nodes |-> {}, edges |-> {}, weight |-> <<>>, size |-> <<>>, message |-> None]
    /\ gpc = "idle"

(***************************************************************************)
(* upload_analyzer.py: _request_json_with_retries                          *)
(*                                                                         *)
(* One step is one iteration of "for attempt in range(attempts)": one      *)
(* requests.get and what the code does with its outcome.  log holds the    *)
(* outcome of every GET issued, sleeps the delays slept, in tenths of a    *)
(* second.                                                                 *)
(***************************************************************************)
CallAttempts == 3
BackoffTenths == 6

\* response.status_code in (429, 500, 502, 503, 504)
RetryStatuses == {429, 500, 502, 503, 504}
\* statuses for which response.raise_for_status() raises HTTPError
ErrorStatuses == {403, 404}

\* The test that gives up one attempt early.
RetryAllowedOneShort(a, total) == a < total - 2

\* if attempt < attempts - 1
RetryAllowed(a, total) == a < total - 1

\* The delay without the "+ 1".
BackoffFromZero(a) == BackoffTenths * a

\* time.sleep(0.6 * (attempt + 1))
Backoff(a) == BackoffTenths * (a + 1)

FetchInit ==
    \* every caller passes attempts=3; the signature takes any count
    /\ attempts \in (0..MaxAttempts) \cup {CallAttempts}
    /\ attempt = 0
    /\ log = <<>>
    /\ sleeps = <<>>
    /\ result = None
    /\ raised = FALSE
    /\ rpc = "loop"

\* The three identical branches: sleep and continue while attempts remain,
\* else return None.
RetryOrGiveUp(outcome) ==
    /\ log' = Append(log, outcome)
    /\ IF RetryAllowed(attempt, attempts)
       THEN /\ sleeps' = Append(sleeps, Backoff(attempt))
            /\ attempt' = attempt + 1
            /\ UNCHANGED <<result, rpc>>
       ELSE /\ result' = None
            /\ rpc' = "done"
            /\ UNCHANGED <<sleeps, attempt>>
    /\ UNCHANGED <<attempts, raised>>

\* a response with a status of the retry tuple
FetchRetryStatus ==
    /\ rpc = "loop"
    /\ attempt < attempts
    /\ \E st \in RetryStatuses : RetryOrGiveUp([kind |-> "status", status |-> st])

\* response.raise_for_status() raises HTTPError, a RequestException
FetchHttpError ==
    /\ rpc = "loop"
    /\ attempt < attempts
    /\ \E st \in ErrorStatuses : RetryOrGiveUp([kind |-> "status", status |-> st])

\* except requests.Timeout
FetchTimeout ==
    /\ rpc = "loop"
    /\ attempt < attempts
    /\ RetryOrGiveUp([kind |-> "timeout"])

\* except requests.RequestException
FetchRequestException ==
    /\ rpc = "loop"
    /\ attempt < attempts
    /\ RetryOrGiveUp([kind |-> "transport"])

\* return response.json()
FetchOk ==
    /\ rpc = "loop"
    /\ attempt < attempts
    /\ log' = Append(log, [kind |-> "ok"])
    /\ result' = Some("json")
    /\ rpc' = "done"
    /\ UNCHANGED <<attempts, attempt, sleeps, raised>>

\* response.json() on a body that is no JSON: requests from 2.27 on raises
\* its JSONDecodeError, a RequestException, which the last handler takes;
\* older ones raise a plain ValueError, which no handler takes.
FetchBadJson ==
    /\ rpc = "loop"
    /\ attempt < attempts
    /\ \/ RetryOrGiveUp([kind |-> "badjson"])
       \/ /\ log' = Append(log, [kind |-> "badjson"])
          /\ raised' = TRUE
          /\ rpc' = "done"
          /\ UNCHANGED <<attempts, attempt, sleeps, result>>

\* the "return None" after the loop: range(attempts) is empty
FetchNoAttempt ==
    /\ rpc = "loop"
    /\ attempt >= attempts
    /\ result' = None
    /\ rpc' = "done"
    /\ UNCHANGED <<attempts, attempt, log, sleeps, raised>>

FetchIdle ==
    /\ attempts = 0
    /\ attempt = 0
    /\ log = <<>>
    /\ sleeps = <<>>
    /\ result = None
    /\ raised = FALSE
    /\ rpc = "idle"

(***************************************************************************)
(* upload_analyzer.py: _lookup_semantic_scholar, _lookup_semantic_scholar_ *)
(* by_doi and the three enrichment passes of analyze_uploaded_paper        *)
(*                                                                         *)
(* Each pass is one call _lookup_semantic_scholar(doi, title) with the     *)
(* title of the pass (titles[k] is None for an empty title).  A request is *)
(* a run of _request_json_with_retries with attempts=3, modelled by the    *)
(* Fetch actions above.  calls records every finished request: the pass,   *)
(* the endpoint and whether it gave a record (each request issues at least *)
(* one GET, attempts being 3).  doi is the match of                        *)
(* _infer_doi, which is never empty after the rstrip of by_doi.            *)
(***************************************************************************)
PassCount == 3

\* What the JSON of a 200 answer of the DOI endpoint can be: a paper object,
\* an empty object, or a value without .get (the AttributeError is caught).
DoiContents == {"record", "empty", "malformed"}
\* The search endpoint: an object with candidates in "data", one with an
\* empty or missing "data", an empty object, a value without .get.
SearchContents == {"data", "nodata", "empty", "malformed"}

\* The fall-through taken even when the identifier lookup gave a record.
ExactIgnored(exact) == FALSE

\* if exact: return exact
ExactReturned(exact) == exact # None

\* The title search issued whatever the title.
TitleNeverMissing(title) == FALSE

\* if not title: return None
TitleMissing(title) == title = None

\* The next pass taken whatever the last one returned.
PassNeverSucceeds(e) == FALSE

\* the negation of "if not enrich"
PassSucceeded(e) == e # None

\* _lookup_semantic_scholar_by_doi: None on an exception, on no value, on an
\* empty object; else the record built from the item.
DoiLookupValue(k, content) ==
    IF raised \/ result = None \/ content # "record"
    THEN None
    ELSE Some([pass |-> k, via |-> "doi"])

\* the try block of _lookup_semantic_scholar
TitleLookupValue(k, content) ==
    IF raised \/ result = None \/ content # "data"
    THEN None
    ELSE Some([pass |-> k, via |-> "title"])

StartRequest ==
    /\ attempts' = CallAttempts
    /\ attempt' = 0
    /\ log' = <<>>
    /\ sleeps' = <<>>
    /\ result' = None
    /\ raised' = FALSE
    /\ rpc' = "loop"

EndRequest ==
    /\ attempts' = 0
    /\ attempt' = 0
    /\ log' = <<>>
    /\ sleeps' = <<>>
    /\ result' = None
    /\ raised' = FALSE
    /\ rpc' = "idle"

\* _lookup_semantic_scholar returns r to analyze_uploaded_paper, which takes
\* the next pass "if not enrich" and a pass is left.
LookupReturns(r) ==
    /\ enrich' = r
    /\ IF PassSucceeded(r) \/ epass = PassCount
       THEN epc' = "done" /\ epass' = epass
       ELSE epc' = "lookup" /\ epass' = epass + 1

EnrichInit ==
    /\ doi \in {None, Some("10.1000/x")}
    /\ titles \in [1..PassCount -> {None, Some("title")}]
    /\ epass = 1
    /\ calls = <<>>
    /\ enrich = None
    /\ epc = "lookup"

\* if doi: exact = _lookup_semantic_scholar_by_doi(doi)
LookupDoiStart ==
    /\ epc = "lookup"
    /\ doi # None
    /\ StartRequest
    /\ epc' = "doi_fetch"
    /\ UNCHANGED <<doi, titles, epass, calls, enrich>>

LookupNoDoi ==
    /\ epc = "lookup"
    /\ doi = None
    /\ epc' = "title"
    /\ UNCHANGED <<doi, titles, epass, calls, enrich, fetchVars>>

\* the request of by_doi has returned; if exact: return exact
LookupDoiReturn ==
    /\ epc = "doi_fetch"
    /\ rpc = "done"
    /\ \E content \in DoiContents :
          LET exact == DoiLookupValue(epass, content)
          IN  /\ calls' = Append(calls, [pass |-> epass, endpoint |-> "doi", found |-> exact # None])
              /\ IF ExactReturned(exact)
                 THEN LookupReturns(exact)
                 ELSE epc' = "title" /\ UNCHANGED <<epass, enrich>>
    /\ EndRequest
    /\ UNCHANGED <<doi, titles>>

\* if not title: return None
LookupNoTitle ==
    /\ epc = "title"
    /\ TitleMissing(titles[epass])
    /\ LookupReturns(None)
    /\ UNCHANGED <<doi, titles, calls, fetchVars>>

\* the title search is requested
LookupTitleStart ==
    /\ epc = "title"
    /\ ~TitleMissing(titles[epass])
    /\ StartRequest
    /\ epc' = "title_fetch"
    /\ UNCHANGED <<doi, titles, epass, calls, enrich>>

\* the request of the title search has returned
LookupTitleReturn ==
    /\ epc = "title_fetch"
    /\ rpc = "done"
    /\ \E content \in SearchContents :
          LET found == TitleLookupValue(epass, content)
          IN  /\ calls' = Append(calls, [pass |-> epass, endpoint |-> "search", found |-> found # None])
              /\ LookupReturns(found)
    /\ EndRequest
    /\ UNCHANGED <<doi, titles>>

EnrichIdle ==
    /\ doi = None
    /\ titles = <<>>
    /\ epass = 1
    /\ calls = <<>>
    /\ enrich = None
    /\ epc = "idle"

(***************************************************************************)
(* upload_analyzer.py: _tokenize_title and _best_title_match               *)
(*                                                                         *)
(* cands is the "data" list of the search response, which the caller has   *)
(* found non-empty; a candidate is its paperId and its title ("" for a     *)
(* missing or null title, as "text or ''" reads it).  A score inter/union  *)
(* is the pair <<inter, union>>; two scores are compared by cross          *)
(* multiplication, which orders them as the float division does.           *)
(***************************************************************************)
MaxCandidates == 3

\* re.sub(r"[^a-z0-9 ]", " ", text)
BlankNonAlnum(s) ==
    [i \in 1..Len(s) |-> IF s[i] \in LowerAlnum \cup {" "} THEN s[i] ELSE " "]

\* The first word of a string that starts with a non-whitespace character
RECURSIVE FirstWord(_)
FirstWord(s) ==
    IF s = <<>> \/ Head(s) \in Whitespace THEN <<>>
    ELSE <<Head(s)>> \o FirstWord(Tail(s))

\* str.split(): the maximal runs of non-whitespace characters, in order
RECURSIVE Split(_)
Split(s) ==
    LET t == LStrip(s)
        w == FirstWord(t)
    IN  IF t = <<>> THEN <<>>
        ELSE <<w>> \o Split(SubSeq(t, Len(w) + 1, Len(t)))

StopWords ==
    {<<"t", "h", "e">>,
     <<"a", "n", "d">>,
     <<"f", "o", "r">>,
     <<"w", "i", "t", "h">>,
     <<"f", "r", "o", "m">>,
     <<"u", "s", "i", "n", "g">>,
     <<"s", "t", "u", "d", "y">>,
     <<"p", "a", "p", "e", "r">>,
     <<"a", "p", "p", "r", "o", "a", "c", "h">>,
     <<"m", "e", "t", "h", "o", "d">>}

\* "len(t) > 2"
TokenLongEnough(t) == Len(t) > 2

\* _tokenize_title(text): the list of tokens
_tokenize_title(text) ==
    LET tokens == SelectSeq(Split(BlankNonAlnum(Lower(text))), TokenLongEnough)
    IN  SelectSeq(tokens, LAMBDA t : t \notin StopWords)

\* set(_tokenize_title(text))
TokenSet(text) ==
    LET toks == _tokenize_title(text)
    IN  {toks[i] : i \in DOMAIN toks}

\* score(item) of _best_title_match
TitleScore(query_tokens, item) ==
    LET cand_tokens == TokenSet(item.title)
    IN  IF cand_tokens = {} THEN <<0, 1>>
        ELSE <<Cardinality(query_tokens \cap cand_tokens),
               Cardinality(query_tokens \cup cand_tokens)>>

\* a < b for two scores
ScoreLess(a, b) == a[1] * b[2] < b[1] * a[2]

\* A sort that puts an item before the items of equal score already placed.
PlaceBeforeTies(ranked_so_far, item, query_tokens) ==
    LET sc == TitleScore(query_tokens, item)
        before == SelectSeq(ranked_so_far,
                      LAMBDA r : ScoreLess(sc, TitleScore(query_tokens, r)))
        after == SelectSeq(ranked_so_far,
                      LAMBDA r : ~ScoreLess(sc, TitleScore(query_tokens, r)))
    IN  before \o <<item>> \o after

\* sorted(..., reverse=True) is stable: an item goes after every item placed
\* so far whose score is not less than its own.
PlaceRanked(ranked_so_far, item, query_tokens) ==
    LET sc == TitleScore(query_tokens, item)
        before == SelectSeq(ranked_so_far,
                      LAMBDA r : ~ScoreLess(TitleScore(query_tokens, r), sc))
        after == SelectSeq(ranked_so_far,
                      LAMBDA r : ScoreLess(TitleScore(query_tokens, r), sc))
    IN  before \o <<item>> \o after

RECURSIVE SortedByScore(_, _, _)
SortedByScore(its, ranked_so_far, query_tokens) ==
    IF its = <<>> THEN ranked_so_far
    ELSE SortedByScore(Tail(its), PlaceRanked(ranked_so_far, Head(its), query_tokens),
                       query_tokens)

MatchTitles ==
    {<<"G", "A", "N", " ", "n", "e", "t">>,
     <<"g", "a", "n", "-", "n", "e", "t", " ", "r", "l">>,
     <<"t", "h", "e", " ", "g", "a", "n">>,
     <<"n", "e", "t">>,
     <<"g", "a", "n", " ", "n", "e", "t", " ", "m", "a", "p">>,
     <<>>}

\* The candidate lists: n titles, the i-th with paperId i
MatchCandidates ==
    UNION {{[i \in 1..n |-> [paperId |-> i, title |-> f[i]]] :
                f \in [1..n -> MatchTitles]} : n \in 1..MaxCandidates}

MatchInit ==
    /\ query_title \in MatchTitles
    /\ cands \in MatchCandidates
    /\ ranked = <<>>
    /\ best = None
    /\ mpc = "tokens"

\* "if not query_tokens: return items[0]"
MatchNoTokens ==
    /\ mpc = "tokens"
    /\ TokenSet(query_title) = {}
    /\ best' = Some(cands[1])
    /\ mpc' = "done"
    /\ UNCHANGED <<query_title, cands, ranked>>

\* "ranked = sorted(items, key=score, reverse=True)"
MatchRank ==
    /\ mpc = "tokens"
    /\ TokenSet(query_title) # {}
    /\ ranked' = SortedByScore(cands, <<>>, TokenSet(query_title))
    /\ mpc' = "ranked"
    /\ UNCHANGED <<query_title, cands, best>>

\* "return ranked[0]"
MatchReturn ==
    /\ mpc = "ranked"
    /\ best' = Some(ranked[1])
    /\ mpc' = "done"
    /\ UNCHANGED <<query_title, cands, ranked>>

MatchIdle ==
    /\ query_title = <<>>
    /\ cands = <<>>
    /\ ranked = <<>>
    /\ best = None
    /\ mpc = "idle"

(***************************************************************************)
(* services/paper_search.py: search and safe_search                        *)
(*                                                                         *)
(* The two backends are the environment: arxiv_env and s2_env say whether  *)
(* a backend answers ("up") or which exception a call to it raises, for    *)
(* the whole run.  arxiv_hits is the number of results arXiv has for the   *)
(* query, s2_hits the hits of Semantic Scholar, each TRUE when it has both *)
(* a title and an abstract.  backend_calls records every call made: the    *)
(* backend and the max_results it was given.                               *)
(***************************************************************************)
MaxSearch == 10
MaxArxivHits == 5
MaxS2Hits == 3
ArxivFloor == 4
SixtyPercent == 6

\* The subclasses of requests.RequestException among the exceptions raised
RequestExceptions == {"ConnectionError", "HTTPError"}
\* What a failing arXiv call raises: the client re-raises a connection error
\* of requests or its own arxiv.HTTPError after its retries
ArxivErrors == {"ConnectionError", "ArxivHTTPError"}
\* What a failing Semantic Scholar call raises: requests.get,
\* raise_for_status, or a payload that is not the expected JSON object
S2Errors == {"ConnectionError", "HTTPError", "ValueError"}

Max(a, b) == IF a >= b THEN a ELSE b
Min(a, b) == IF a <= b THEN a ELSE b

\* A search that asks the first backend for the full max_results.
ArxivTargetFull(m) == m

\* "arxiv_target = max(4, int(max_results * 0.6))"
ArxivTarget(m) == Max(ArxivFloor, (SixtyPercent * m) \div 10)

\* "semsch_target = max_results"
SemschTarget(m) == m

\* _search_arxiv(query, n): the first n results, in the order of relevance
ArxivResults(n) ==
    [i \in 1..Min(n, arxiv_hits) |-> [source |-> "arXiv", rank |-> i]]

\* _search_semantic_scholar(query, n): of the first min(n, 100) hits, those
\* with a title and an abstract
S2Results(n) ==
    LET data == [i \in 1..Min(Min(n, 100), Len(s2_hits)) |->
                    [source |-> "Semantic Scholar", rank |-> i, complete |-> s2_hits[i]]]
        kept == SelectSeq(data, LAMBDA item : item.complete)
    IN  [i \in 1..Len(kept) |-> [source |-> kept[i].source, rank |-> kept[i].rank]]

\* An except clause that catches nothing.
CatchesNothing(e) == FALSE

\* "except requests.RequestException"
CaughtBySafeSearch(e) == e \in RequestExceptions

SearchInit ==
    /\ search_max \in 1..MaxSearch
    /\ arxiv_env \in {"up"} \cup ArxivErrors
    /\ s2_env \in {"up"} \cup S2Errors
    /\ arxiv_hits \in 0..MaxArxivHits
    /\ s2_hits \in UNION {[1..n -> BOOLEAN] : n \in 0..MaxS2Hits}
    /\ backend_calls = <<>>
    /\ search_papers = <<>>
    /\ returned = None
    /\ search_error = None
    /\ spc = "arxiv"

\* What search does with an exception e: safe_search catches it and goes to
\* its fallback, or lets it out.
SearchRaises(e) ==
    IF CaughtBySafeSearch(e)
    THEN spc' = "fallback" /\ search_error' = None
    ELSE spc' = "done" /\ search_error' = Some(e)

\* "papers.extend(self._search_arxiv(query, arxiv_target))"
SearchArxivAnswers ==
    /\ spc = "arxiv"
    /\ arxiv_env = "up"
    /\ backend_calls' = Append(backend_calls,
                            [backend |-> "arXiv", max_results |-> ArxivTarget(search_max)])
    /\ search_papers' = search_papers \o ArxivResults(ArxivTarget(search_max))
    /\ spc' = "s2"
    /\ UNCHANGED <<search_max, arxiv_env, s2_env, arxiv_hits, s2_hits, returned, search_error>>

SearchArxivRaises ==
    /\ spc = "arxiv"
    /\ arxiv_env # "up"
    /\ backend_calls' = Append(backend_calls,
                            [backend |-> "arXiv", max_results |-> ArxivTarget(search_max)])
    /\ SearchRaises(arxiv_env)
    /\ UNCHANGED <<search_max, arxiv_env, s2_env, arxiv_hits, s2_hits, search_papers, returned>>

\* "papers.extend(self._search_semantic_scholar(query, semsch_target))" and
\* "return papers"
SearchS2Answers ==
    /\ spc = "s2"
    /\ s2_env = "up"
    /\ backend_calls' = Append(backend_calls,
                            [backend |-> "Semantic Scholar",
                             max_results |-> SemschTarget(search_max)])
    /\ search_papers' = search_papers \o S2Results(SemschTarget(search_max))
    /\ returned' = Some(search_papers')
    /\ spc' = "done"
    /\ UNCHANGED <<search_max, arxiv_env, s2_env, arxiv_hits, s2_hits, search_error>>

SearchS2Raises ==
    /\ spc = "s2"
    /\ s2_env # "up"
    /\ backend_calls' = Append(backend_calls,
                            [backend |-> "Semantic Scholar",
                             max_results |-> SemschTarget(search_max)])
    /\ SearchRaises(s2_env)
    /\ UNCHANGED <<search_max, arxiv_env, s2_env, arxiv_hits, s2_hits, search_papers, returned>>

\* "return service._search_arxiv(query=query, max_results=max_results)"
FallbackArxivAnswers ==
    /\ spc = "fallback"
    /\ arxiv_env = "up"
    /\ backend_calls' = Append(backend_calls,
                            [backend |-> "arXiv", max_results |-> search_max])
    /\ returned' = Some(ArxivResults(search_max))
    /\ spc' = "done"
    /\ UNCHANGED <<search_max, arxiv_env, s2_env, arxiv_hits, s2_hits, search_papers, search_error>>

\* The fallback is outside the try: whatever it raises leaves safe_search.
FallbackArxivRaises ==
    /\ spc = "fallback"
    /\ arxiv_env # "up"
    /\ backend_calls' = Append(backend_calls,
                            [backend |-> "arXiv", max_results |-> search_max])
    /\ search_error' = Some(arxiv_env)
    /\ spc' = "done"
    /\ UNCHANGED <<search_max, arxiv_env, s2_env, arxiv_hits, s2_hits, search_papers, returned>>

SearchIdle ==
    /\ search_max = 1
    /\ arxiv_env = "up"
    /\ s2_env = "up"
    /\ arxiv_hits = 0
    /\ s2_hits = <<>>
    /\ backend_calls = <<>>
    /\ search_papers = <<>>
    /\ returned = None
    /\ search_error = None
    /\ spc = "idle"

(***************************************************************************)
(* analyzers/section_extractor.py: SectionExtractor                        *)
(*                                                                         *)
(* abstract is the text given to extract, sentences the list of            *)
(* _split_sentences, section_text the five values of _extract_section_text *)
(* in the order extract asks for them, future_work the value extract holds *)
(* after its test for "Not explicitly stated", extracted the dictionary    *)
(* returned.  All texts are sequences of characters.                       *)
(***************************************************************************)
MaxSentences == 4

SECTION_KEYWORDS ==
    [
        literature_review |->
            {<<"r", "e", "l", "a", "t", "e", "d", " ", "w", "o", "r", "k">>,
             <<"p", "r", "e", "v", "i", "o", "u", "s", " ", "w", "o", "r", "k">>,
             <<"p", "r", "i", "o", "r", " ", "w", "o", "r", "k">>,
             <<"e", "x", "i", "s", "t", "i", "n", "g", " ", "m", "e", "t", "h", "o", "d", "s">>,
             <<"s", "t", "a", "t", "e", "-", "o", "f", "-", "t", "h", "e", "-", "a", "r", "t">>,
             <<"l", "i", "t", "e", "r", "a", "t", "u", "r", "e">>,
             <<"b", "a", "s", "e", "l", "i", "n", "e">>,
             <<"c", "o", "m", "p", "a", "r", "e", "d">>},
        method_used |->
            {<<"w", "e", " ", "p", "r", "o", "p", "o", "s", "e">>,
             <<"o", "u", "r", " ", "a", "p", "p", "r", "o", "a", "c", "h">>,
             <<"m", "e", "t", "h", "o", "d">>,
             <<"f", "r", "a", "m", "e", "w", "o", "r", "k">>,
             <<"a", "r", "c", "h", "i", "t", "e", "c", "t", "u", "r", "e">>,
             <<"a", "l", "g", "o", "r", "i", "t", "h", "m">>,
             <<"m", "o", "d", "e", "l">>,
             <<"t", "r", "a", "i", "n", "i", "n", "g">>,
             <<"d", "a", "t", "a", "s", "e", "t">>,
             <<"e", "v", "a", "l", "u", "a", "t", "i", "o", "n">>,
             <<"e", "x", "p", "e", "r", "i", "m", "e", "n", "t">>},
        contributions |->
            {<<"c", "o", "n", "t", "r", "i", "b", "u", "t", "i", "o", "n">>,
             <<"w", "e", " ", "i", "n", "t", "r", "o", "d", "u", "c", "e">>,
             <<"w", "e", " ", "p", "r", "e", "s", "e", "n", "t">>,
             <<"n", "o", "v", "e", "l">>,
             <<"n", "e", "w">>,
             <<"f", "i", "r", "s", "t">>,
             <<"o", "u", "t", "p", "e", "r", "f", "o", "r", "m">>,
             <<"i", "m", "p", "r", "o", "v", "e">>,
             <<"s", "i", "g", "n", "i", "f", "i", "c", "a", "n", "t">>},
        limitations |->
            {<<"l", "i", "m", "i", "t", "a", "t", "i", "o", "n">>,
             <<"h", "o", "w", "e", "v", "e", "r">>,
             <<"c", "h", "a", "l", "l", "e", "n", "g", "e">>,
             <<"c", "o", "n", "s", "t", "r", "a", "i", "n", "t">>,
             <<"d", "r", "a", "w", "b", "a", "c", "k">>,
             <<"c", "a", "n", "n", "o", "t">>,
             <<"f", "a", "i", "l", "s">>,
             <<"c", "o", "s", "t", "l", "y">>,
             <<"e", "x", "p", "e", "n", "s", "i", "v", "e">>,
             <<"s", "t", "i", "l", "l", " ", "d", "i", "f", "f", "i", "c", "u", "l", "t">>},
        future_work |->
            {<<"f", "u", "t", "u", "r", "e", " ", "w", "o", "r", "k">>,
             <<"i", "n", " ", "f", "u", "t", "u", "r", "e">>,
             <<"f", "u", "r", "t", "h", "e", "r", " ", "w", "o", "r", "k">>,
             <<"n", "e", "x", "t", " ", "s", "t", "e", "p">>,
             <<"c", "a", "n", " ", "b", "e", " ", "e", "x", "t", "e", "n", "d", "e", "d">>,
             <<"p", "r", "o", "m", "i", "s", "i", "n", "g", " ", "d", "i", "r", "e", "c", "t", "i", "o", "n">>}
    ]

\* "self.sections"
Sections ==
    {"insights", "literature_review", "method_used", "contributions",
     "limitations", "future_work", "research_gap"}

\* The sections extract passes to _extract_section_text, in its order
ExtractedSections ==
    <<"literature_review", "method_used", "contributions", "limitations",
      "future_work">>

\* "Not enough information in abstract."
NotEnoughInformation ==
    <<"N", "o", "t", " ", "e", "n", "o", "u", "g", "h", " ", "i",
      "n", "f", "o", "r", "m", "a", "t", "i", "o", "n", " ", "i",
      "n", " ", "a", "b", "s", "t", "r", "a", "c", "t", ".">>

\* the fallback of limitations
LimitationsNotStated ==
    <<"N", "o", "t", " ", "e", "x", "p", "l", "i", "c", "i", "t",
      "l", "y", " ", "s", "t", "a", "t", "e", "d", " ", "i", "n",
      " ", "t", "h", "e", " ", "a", "b", "s", "t", "r", "a", "c",
      "t", ";", " ", "p", "r", "a", "c", "t", "i", "c", "a", "l",
      " ", "c", "o", "n", "s", "t", "r", "a", "i", "n", "t", "s",
      " ", "a", "n", "d", " ", "e", "d", "g", "e", "-", "c", "a",
      "s", "e", " ", "b", "e", "h", "a", "v", "i", "o", "r", " ",
      "r", "e", "q", "u", "i", "r", "e", " ", "d", "e", "e", "p",
      "e", "r", " ", "f", "u", "l", "l", "-", "t", "e", "x", "t",
      " ", "r", "e", "v", "i", "e", "w", ".">>

\* the fallback of future_work
FutureWorkNotStated ==
    <<"N", "o", "t", " ", "e", "x", "p", "l", "i", "c", "i", "t",
      "l", "y", " ", "s", "t", "a", "t", "e", "d", " ", "i", "n",
      " ", "a", "b", "s", "t", "r", "a", "c", "t", ".">>

\* the phrase extract looks for in future_work
NotExplicitlyStated ==
    <<"N", "o", "t", " ", "e", "x", "p", "l", "i", "c", "i", "t",
      "l", "y", " ", "s", "t", "a", "t", "e", "d">>

\* the fixed parts of the f-string of _build_insights
InsightsLead ==
    <<"T", "h", "i", "s", " ", "p", "a", "p", "e", "r", " ", "f",
      "o", "c", "u", "s", "e", "s", " ", "o", "n", " ", "a", " ",
      "c", "o", "n", "c", "r", "e", "t", "e", " ", "p", "r", "o",
      "b", "l", "e", "m", " ", "s", "e", "t", "t", "i", "n", "g",
      " ", "a", "n", "d", " ", "p", "r", "o", "p", "o", "s", "e",
      "s", " ", "a", " ", "t", "a", "r", "g", "e", "t", "e", "d",
      " ", "s", "t", "r", "a", "t", "e", "g", "y", ".", " ", "C",
      "o", "r", "e", " ", "c", "o", "n", "t", "e", "x", "t", ":",
      " ">>

InsightsDirection ==
    <<" ", "T", "e", "c", "h", "n", "i", "c", "a", "l", " ", "d",
      "i", "r", "e", "c", "t", "i", "o", "n", ":", " ">>

InsightsOutcome ==
    <<" ", "M", "a", "i", "n", " ", "o", "u", "t", "c", "o", "m",
      "e", ":", " ">>

\* the fixed part of the f-string of _derive_future_work
InferredFutureLead ==
    <<"I", "n", "f", "e", "r", "r", "e", "d", " ", "f", "u", "t",
      "u", "r", "e", " ", "d", "i", "r", "e", "c", "t", "i", "o",
      "n", " ", "f", "r", "o", "m", " ", "l", "i", "m", "i", "t",
      "a", "t", "i", "o", "n", "s", ":", " ", "e", "x", "t", "e",
      "n", "d", " ", "e", "v", "a", "l", "u", "a", "t", "i", "o",
      "n", " ", "a", "c", "r", "o", "s", "s", " ", "m", "o", "r",
      "e", " ", "d", "i", "v", "e", "r", "s", "e", " ", "d", "a",
      "t", "a", "s", "e", "t", "s", ",", " ", "i", "m", "p", "r",
      "o", "v", "e", " ", "r", "o", "b", "u", "s", "t", "n", "e",
      "s", "s", " ", "i", "n", " ", "e", "d", "g", "e", " ", "c",
      "a", "s", "e", "s", ",", " ", "a", "n", "d", " ", "o", "p",
      "t", "i", "m", "i", "z", "e", " ", "e", "f", "f", "i", "c",
      "i", "e", "n", "c", "y", " ", "f", "o", "r", " ", "r", "e",
      "a", "l", "-", "w", "o", "r", "l", "d", " ", "d", "e", "p",
      "l", "o", "y", "m", "e", "n", "t", ".", " ", "K", "e", "y",
      " ", "l", "i", "m", "i", "t", "a", "t", "i", "o", "n", " ",
      "c", "o", "n", "t", "e", "x", "t", ":", " ">>

\* the fixed parts of the f-string of _derive_research_gap
ResearchGapLead ==
    <<"C", "u", "r", "r", "e", "n", "t", " ", "w", "o", "r", "k",
      " ", "i", "n", "d", "i", "c", "a", "t", "e", "s", " ", "a",
      " ", "g", "a", "p", " ", "b", "e", "t", "w", "e", "e", "n",
      " ", "b", "e", "n", "c", "h", "m", "a", "r", "k", " ", "p",
      "e", "r", "f", "o", "r", "m", "a", "n", "c", "e", " ", "a",
      "n", "d", " ", "r", "e", "l", "i", "a", "b", "l", "e", " ",
      "d", "e", "p", "l", "o", "y", "m", "e", "n", "t", " ", "i",
      "n", " ", "r", "e", "a", "l", " ", "s", "e", "t", "t", "i",
      "n", "g", "s", ".", " ", "M", "o", "r", "e", " ", "s", "t",
      "a", "n", "d", "a", "r", "d", "i", "z", "e", "d", " ", "e",
      "v", "a", "l", "u", "a", "t", "i", "o", "n", " ", "p", "r",
      "o", "t", "o", "c", "o", "l", "s", ",", " ", "t", "r", "a",
      "n", "s", "p", "a", "r", "e", "n", "t", " ", "f", "a", "i",
      "l", "u", "r", "e", " ", "a", "n", "a", "l", "y", "s", "i",
      "s", ",", " ", "a", "n", "d", " ", "c", "r", "o", "s", "s",
      "-", "d", "o", "m", "a", "i", "n", " ", "g", "e", "n", "e",
      "r", "a", "l", "i", "z", "a", "t", "i", "o", "n", " ", "s",
      "t", "u", "d", "i", "e", "s", " ", "a", "r", "e", " ", "n",
      "e", "e", "d", "e", "d", ".", " ", "E", "v", "i", "d", "e",
      "n", "c", "e", " ", "f", "r", "o", "m", " ", "r", "e", "l",
      "a", "t", "e", "d", "-", "w", "o", "r", "k", " ", "c", "o",
      "n", "t", "e", "x", "t", ":", " ">>

ResearchGapConstraints ==
    <<" ", "O", "b", "s", "e", "r", "v", "e", "d", " ", "c", "o",
      "n", "s", "t", "r", "a", "i", "n", "t", "s", ":", " ">>

ResearchGapForward ==
    <<" ", "F", "o", "r", "w", "a", "r", "d", " ", "d", "i", "r",
      "e", "c", "t", "i", "o", "n", ":", " ">>

\* The characters [.!?] of the lookbehind of re.split
SentenceEnd == {".", "!", "?"}

\* re.split(r"(?<=[.!?])\s+", text): the text is cut at every run of
\* whitespace that follows one of [.!?], and the run is dropped
RECURSIVE SplitAfterEnd(_)
SplitAfterEnd(s) ==
    LET cuts == {i \in 2..Len(s) : s[i] \in Whitespace /\ s[i - 1] \in SentenceEnd}
        first == CHOOSE i \in cuts : \A j \in cuts : i <= j
    IN  IF cuts = {} THEN <<s>>
        ELSE <<SubSeq(s, 1, first - 1)>>
                 \o SplitAfterEnd(LStrip(SubSeq(s, first, Len(s))))

_split_sentences(text) ==
    LET stripped == Strip(text)
        chunks == SplitAfterEnd(stripped)
        kept == SelectSeq(chunks, LAMBDA c : Strip(c) # <<>>)
    IN  IF stripped = <<>> THEN <<>>
        ELSE [i \in 1..Len(kept) |-> Strip(kept[i])]

\* "kw in lower"
Contains(text, kw) ==
    \E i \in 1..(Len(text) - Len(kw) + 1) : SubSeq(text, i, i + Len(kw) - 1) = kw

\* "score = sum(1 for kw in keywords if kw in lower)"
Score(sent, section) ==
    LET lower == Lower(sent)
    IN  Cardinality({kw \in SECTION_KEYWORDS[section] : Contains(lower, kw)})

\* " ".join(parts)
RECURSIVE JoinWithSpace(_)
JoinWithSpace(parts) ==
    IF parts = <<>> THEN <<>>
    ELSE IF Len(parts) = 1 THEN Head(parts)
    ELSE Head(parts) \o <<" ">> \o JoinWithSpace(Tail(parts))

\* A sort that puts a pair before the pairs of equal score already placed.
PlaceScoredBeforeTies(sorted_so_far, pair) ==
    LET before == SelectSeq(sorted_so_far, LAMBDA q : q.score > pair.score)
        after == SelectSeq(sorted_so_far, LAMBDA q : q.score <= pair.score)
    IN  before \o <<pair>> \o after

\* "scored.sort(key=lambda x: x[0], reverse=True)" is stable: a pair goes
\* after every pair placed so far whose score is not less than its own.
PlaceScored(sorted_so_far, pair) ==
    LET before == SelectSeq(sorted_so_far, LAMBDA q : q.score >= pair.score)
        after == SelectSeq(sorted_so_far, LAMBDA q : q.score < pair.score)
    IN  before \o <<pair>> \o after

RECURSIVE SortScored(_, _)
SortScored(scored, sorted_so_far) ==
    IF scored = <<>> THEN sorted_so_far
    ELSE SortScored(Tail(scored), PlaceScored(sorted_so_far, Head(scored)))

\* Every section given top_k = 2.
TopTwoEverywhere(section) == 2

\* The top_k extract passes for a section
TopK(section) == IF section = "method_used" THEN 3 ELSE 2

\* A fallback that is the first sentence for every section.
FirstSentenceFallback(sents, section) == sents[1]

\* What _extract_section_text returns when no sentence scored
Fallback(sents, section) ==
    CASE section = "method_used" ->
             JoinWithSpace(SubSeq(sents, 1, Min(2, Len(sents))))
      [] section = "contributions" -> sents[Len(sents)]
      [] section = "limitations" -> LimitationsNotStated
      [] section = "future_work" -> FutureWorkNotStated
      [] OTHER -> sents[1]

_extract_section_text(sents, section, top_k) ==
    LET pairs == [i \in 1..Len(sents) |->
                     [score |-> Score(sents[i], section), sent |-> sents[i]]]
        scored == SelectSeq(pairs, LAMBDA q : q.score > 0)
        sorted == SortScored(scored, <<>>)
        chosen == [i \in 1..Min(top_k, Len(sorted)) |-> sorted[i].sent]
    IN  IF scored # <<>> THEN JoinWithSpace(chosen) ELSE Fallback(sents, section)

_build_insights(sents, method_used, contributions) ==
    InsightsLead \o JoinWithSpace(SubSeq(sents, 1, Min(2, Len(sents))))
        \o InsightsDirection \o method_used \o InsightsOutcome \o contributions

\* A derivation that hands back the statement standing for "not stated".
DerivedIsNotStated(limitations) == FutureWorkNotStated

_derive_future_work(limitations) == InferredFutureLead \o limitations

_derive_research_gap(literature_review, limitations, fw) ==
    ResearchGapLead \o literature_review \o ResearchGapConstraints \o limitations
        \o ResearchGapForward \o fw

\* A result for no sentences that leaves every field empty.
EmptyFields(keys) == [k \in keys |-> <<>>]

\* "{k: "Not enough information in abstract." for k in self.sections}"
InsufficientFields(keys) == [k \in keys |-> NotEnoughInformation]

SentencePool ==
    {<<"W", "e", " ", "p", "r", "o", "p", "o", "s", "e", " ", "a",
       " ", "n", "e", "w", " ", "m", "o", "d", "e", "l", ".">>,
     <<"P", "r", "i", "o", "r", " ", "w", "o", "r", "k", " ", "u",
       "s", "e", "d", " ", "r", "u", "l", "e", "s", ".">>,
     <<"H", "o", "w", "e", "v", "e", "r", " ", "i", "t", " ", "i",
       "s", " ", "c", "o", "s", "t", "l", "y", ".">>,
     <<"E", "x", "i", "s", "t", "i", "n", "g", " ", "m", "e", "t",
       "h", "o", "d", "s", " ", "f", "a", "i", "l", ".">>,
     <<"F", "u", "t", "u", "r", "e", " ", "w", "o", "r", "k", " ",
       "i", "s", " ", "p", "l", "a", "n", "n", "e", "d", ".">>,
     <<"F", "u", "t", "u", "r", "e", " ", "w", "o", "r", "k", ":",
       " ", "N", "o", "t", " ", "e", "x", "p", "l", "i", "c", "i",
       "t", "l", "y", " ", "s", "t", "a", "t", "e", "d", ".">>}

\* The abstracts: up to MaxSentences sentences of the pool joined by single
\* spaces, the empty text among them, and two texts of whitespace only
Abstracts ==
    {JoinWithSpace(ss) : ss \in SeqsUpTo(SentencePool, MaxSentences)}
        \cup {<<" ">>, <<" ", "\t", " ">>}

ExtractInit ==
    /\ abstract \in Abstracts
    /\ sentences = <<>>
    /\ section_text = <<>>
    /\ future_work = None
    /\ extracted = None
    /\ xpc = "split"

\* "sentences = self._split_sentences(abstract)"
ExtractSplit ==
    /\ xpc = "split"
    /\ sentences' = _split_sentences(abstract)
    /\ xpc' = "split_done"
    /\ UNCHANGED <<abstract, section_text, future_work, extracted>>

\* "if not sentences: return {...}"
ExtractNoSentences ==
    /\ xpc = "split_done"
    /\ sentences = <<>>
    /\ extracted' = Some(InsufficientFields(Sections))
    /\ xpc' = "done"
    /\ UNCHANGED <<abstract, sentences, section_text, future_work>>

\* The five calls of _extract_section_text
ExtractSectionTexts ==
    /\ xpc = "split_done"
    /\ sentences # <<>>
    /\ section_text' =
           [i \in 1..Len(ExtractedSections) |->
               _extract_section_text(sentences, ExtractedSections[i],
                                     TopK(ExtractedSections[i]))]
    /\ xpc' = "sections_done"
    /\ UNCHANGED <<abstract, sentences, future_work, extracted>>

\* "if "Not explicitly stated" in future_work:
\*      future_work = self._derive_future_work(limitations)"
ExtractDeriveFutureWork ==
    /\ xpc = "sections_done"
    /\ Contains(section_text[5], NotExplicitlyStated)
    /\ future_work' = Some(_derive_future_work(section_text[4]))
    /\ xpc' = "future_done"
    /\ UNCHANGED <<abstract, sentences, section_text, extracted>>

ExtractKeepFutureWork ==
    /\ xpc = "sections_done"
    /\ ~Contains(section_text[5], NotExplicitlyStated)
    /\ future_work' = Some(section_text[5])
    /\ xpc' = "future_done"
    /\ UNCHANGED <<abstract, sentences, section_text, extracted>>

\* insights, research_gap and the dictionary returned
ExtractReturn ==
    /\ xpc = "future_done"
    /\ extracted' =
           Some([insights |-> _build_insights(sentences, section_text[2], section_text[3]),
                 literature_review |-> section_text[1],
                 method_used |-> section_text[2],
                 contributions |-> section_text[3],
                 limitations |-> section_text[4],
                 future_work |-> Val(future_work),
                 research_gap |-> _derive_research_gap(section_text[1], section_text[4],
                                                       Val(future_work))])
    /\ xpc' = "done"
    /\ UNCHANGED <<abstract, sentences, section_text, future_work>>

ExtractIdle ==
    /\ abstract = <<>>
    /\ sentences = <<>>
    /\ section_text = <<>>
    /\ future_work = None
    /\ extracted = None
    /\ xpc = "idle"

(***************************************************************************)
(* upload_analyzer.py: _normalize_whitespace, _pick, _format_section_output*)
(* _clean_section_text and _is_noisy_sentence                              *)
(*                                                                         *)
(* A re.sub is computed match by match, from the left: the text before the *)
(* first match, the replacement, and the same on the text after the match. *)
(* The classes \w, \d and \s are taken on ASCII.  fmt_in is the dictionary *)
(* given to _format_section_output and cleaned the one it returns.         *)
(***************************************************************************)
\* The character "\x00"
Nul == "\\0"
Digits == {"0", "1", "2", "3", "4", "5", "6", "7", "8", "9"}
Letters == (LowerAlnum \ Digits) \cup DOMAIN LowerOfUpper
\* The class \w
WordChars == Letters \cup Digits \cup {"_"}

\* The least position of text at or after i whose character is in chars, 0
\* for none
FirstIn(text, i, chars) ==
    LET hits == {j \in i..Len(text) : text[j] \in chars}
    IN  IF hits = {} THEN 0 ELSE CHOOSE j \in hits : \A k \in hits : j <= k

\* The least position of text at or after i whose character is not in chars
FirstNotIn(text, i, chars) ==
    LET hits == {j \in i..Len(text) : text[j] \notin chars}
    IN  IF hits = {} THEN 0 ELSE CHOOSE j \in hits : \A k \in hits : j <= k

\* The last position of the run of non-whitespace that starts at i
RunEnd(text, i) ==
    LET next == FirstIn(text, i, Whitespace)
    IN  IF next = 0 THEN Len(text) ELSE next - 1

\* "literal" stands in text from position i on
StartsAt(text, i, literal) ==
    /\ i + Len(literal) - 1 <= Len(text)
    /\ text[i] = literal[1]
    /\ SubSeq(text, i, i + Len(literal) - 1) = literal

\* \b between the positions i - 1 and i of text
WordBoundary(text, i) ==
    LET before == i > 1 /\ text[i - 1] \in WordChars
        after == i <= Len(text) /\ text[i] \in WordChars
    IN  before # after

\* text.replace("\x00", " ")
ReplaceNul(text) ==
    LET f == [i \in 1..Len(text) |-> IF text[i] = Nul THEN " " ELSE text[i]]
    IN  IF \E i \in 1..Len(text) : text[i] = Nul THEN SubSeq(f, 1, Len(text)) ELSE text

_normalize_whitespace(text) == Strip(CollapseWhitespace(ReplaceNul(text)))

\* A pick that takes the fallback whatever the primary.
PickFallback(primary, fallback) == fallback

\* _pick(primary, fallback); None is a primary that is absent
_pick(primary, fallback) ==
    IF primary # None /\ Strip(Val(primary)) # <<>>
    THEN Strip(Val(primary))
    ELSE fallback

\* re.sub(r"(\w)-\s+(\w)", r"\1\2", text)
RECURSIVE JoinHyphenated(_)
JoinHyphenated(text) ==
    LET second(i) == FirstNotIn(text, i + 2, Whitespace)
        starts == {i \in 1..(Len(text) - 3) :
                      /\ text[i + 1] = "-"
                      /\ text[i] \in WordChars
                      /\ text[i + 2] \in Whitespace
                      /\ second(i) # 0
                      /\ text[second(i)] \in WordChars}
        first == CHOOSE i \in starts : \A k \in starts : i <= k
    IN  IF starts = {} THEN text
        ELSE SubSeq(text, 1, first) \o <<text[second(first)]>>
                 \o JoinHyphenated(SubSeq(text, second(first) + 1, Len(text)))

HttpPrefix == <<"h", "t", "t", "p", ":", "/", "/">>
HttpsPrefix == <<"h", "t", "t", "p", "s", ":", "/", "/">>

\* where a match of https?://\S+ starts, and the length of its scheme
UrlScheme(text, i) ==
    IF StartsAt(text, i, HttpPrefix) THEN Len(HttpPrefix)
    ELSE IF StartsAt(text, i, HttpsPrefix) THEN Len(HttpsPrefix)
    ELSE 0

\* re.sub(r"https?://\S+", " ", text)
RECURSIVE RemoveUrls(_)
RemoveUrls(text) ==
    LET starts == {i \in 1..Len(text) :
                      /\ text[i] = "h"
                      /\ UrlScheme(text, i) # 0
                      /\ i + UrlScheme(text, i) <= Len(text)
                      /\ text[i + UrlScheme(text, i)] \notin Whitespace}
        first == CHOOSE i \in starts : \A k \in starts : i <= k
    IN  IF starts = {} THEN text
        ELSE SubSeq(text, 1, first - 1) \o <<" ">>
                 \o RemoveUrls(SubSeq(text, RunEnd(text, first) + 1, Len(text)))

DoiPrefix == <<"d", "o", "i", ":">>

\* re.sub(r"\bdoi:\s*\S+", " ", text, flags=re.IGNORECASE)
RECURSIVE RemoveDoiTokens(_)
RemoveDoiTokens(text) ==
    LET token(i) == FirstNotIn(text, i + Len(DoiPrefix), Whitespace)
        starts == {i \in 1..(Len(text) - Len(DoiPrefix)) :
                      /\ text[i] \in {"d", "D"}
                      /\ Lower(SubSeq(text, i, i + Len(DoiPrefix) - 1)) = DoiPrefix
                      /\ WordBoundary(text, i)
                      /\ token(i) # 0}
        first == CHOOSE i \in starts : \A k \in starts : i <= k
    IN  IF starts = {} THEN text
        ELSE SubSeq(text, 1, first - 1) \o <<" ">>
                 \o RemoveDoiTokens(
                        SubSeq(text, RunEnd(text, token(first)) + 1, Len(text)))

\* str.strip(chars)
StripChars(text, chars) ==
    LET lo == FirstNotIn(text, 1, chars)
        back == {j \in 1..Len(text) : text[Len(text) + 1 - j] \notin chars}
        hi == Len(text) + 1 - (CHOOSE j \in back : \A k \in back : j <= k)
    IN  IF lo = 0 THEN <<>> ELSE SubSeq(text, lo, hi)

\* re.sub(r"\W+", "", sentence.lower())
NormOf(sentence) == SelectSeq(Lower(sentence), LAMBDA c : c \in WordChars)

\* "literal" stands in text between two word boundaries
ContainsWord(text, literal) ==
    \E i \in 1..(Len(text) - Len(literal) + 1) :
        /\ StartsAt(text, i, literal)
        /\ WordBoundary(text, i)
        /\ WordBoundary(text, i + Len(literal))

DoiOrg == <<"d", "o", "i", ".", "o", "r", "g">>
OpenAccess == <<"o", "p", "e", "n", " ", "a", "c", "c", "e", "s", "s">>
TheAuthors == <<"t", "h", "e", " ", "a", "u", "t", "h", "o", "r", "(", "s", ")">>
Copyright == <<"c", "o", "p", "y", "r", "i", "g", "h", "t">>
AllRightsReserved == <<"a", "l", "l", " ", "r", "i", "g", "h", "t", "s", " ", "r",
      "e", "s", "e", "r", "v", "e", "d">>
AbstractWord == <<"a", "b", "s", "t", "r", "a", "c", "t">>
BoilerplatePhrases == {OpenAccess, TheAuthors, Copyright, AllRightsReserved}

\* re.search(r"\b[a-z]+\s*\(\d{4}\)\s*\d+:\d+\b", s): a word of letters, a
\* year in parentheses, then digits, a colon and digits
JournalCitation(s) ==
    \E p \in 2..(Len(s) - 8) :
        /\ s[p] = "("
        /\ s[p + 5] = ")"
        /\ \A d \in 1..4 : s[p + d] \in Digits
        /\ LET name_end == CHOOSE j \in 0..(p - 1) :
                               /\ \A k \in (j + 1)..(p - 1) : s[k] \in Whitespace
                               /\ j = 0 \/ s[j] \notin Whitespace
               others == {k \in 1..name_end : s[k] \notin LowerAlnum \ Digits}
               name_start ==
                   IF others = {} THEN 1
                   ELSE (CHOOSE k \in others : \A m \in others : m <= k) + 1
               volume == FirstNotIn(s, p + 6, Whitespace)
               colon == FirstNotIn(s, volume, Digits)
               after == FirstNotIn(s, colon + 1, Digits)
           IN  /\ name_end > 0
               /\ name_start <= name_end
               /\ WordBoundary(s, name_start)
               /\ volume # 0
               /\ s[volume] \in Digits
               /\ colon # 0
               /\ s[colon] = ":"
               /\ colon < Len(s)
               /\ s[colon + 1] \in Digits
               /\ after = 0 \/ s[after] \notin WordChars

_is_noisy_sentence(sentence) ==
    LET s == Lower(sentence)
        alpha == Cardinality({i \in 1..Len(sentence) : sentence[i] \in Letters})
        digits == Cardinality({i \in 1..Len(sentence) : sentence[i] \in Digits})
        commas == Cardinality({i \in 1..Len(sentence) : sentence[i] = ","})
    IN  \/ Len(sentence) < 40
        \/ Contains(s, DoiOrg)
        \/ Contains(s, OpenAccess)
        \/ \E phrase \in {TheAuthors, Copyright, AllRightsReserved} : ContainsWord(s, phrase)
        \/ JournalCitation(s)
        \/ ContainsWord(s, AbstractWord) /\ commas > 5
        \/ alpha # 0 /\ 10 * digits > 3 * alpha

\* The loop "for part in parts" of _clean_section_text
RECURSIVE SelectSentences(_, _, _, _)
SelectSentences(parts, selected, norms, max_sentences) ==
    IF parts = <<>> THEN selected
    ELSE LET sentence == StripChars(Head(parts), {" ", "-"})
             norm == NormOf(sentence)
             skipped ==
                 \/ sentence = <<>>
                 \/ _is_noisy_sentence(sentence)
                 \/ norm = <<>>
                 \/ norm \in norms
         IN  IF skipped
             THEN SelectSentences(Tail(parts), selected, norms, max_sentences)
             ELSE IF Len(selected) + 1 >= max_sentences
                  THEN Append(selected, sentence)
                  ELSE SelectSentences(Tail(parts), Append(selected, sentence),
                                       norms \cup {norm}, max_sentences)

\* re.sub(r"\b(open access|the author\(s\)|copyright|all rights reserved)\b",
\*        " ", cleaned, flags=re.IGNORECASE)
RECURSIVE RemoveBoilerplate(_, _)
RemoveBoilerplate(text, word_before) ==
    LET lower == Lower(text)
        boundary(i) ==
            IF i = 1 THEN word_before # (text[1] \in WordChars) ELSE WordBoundary(text, i)
        phrase_at(i) ==
            {ph \in BoilerplatePhrases :
                /\ StartsAt(lower, i, ph)
                /\ boundary(i)
                /\ WordBoundary(text, i + Len(ph))}
        starts == {i \in 1..Len(text) :
                      /\ \E ph \in BoilerplatePhrases : lower[i] = ph[1]
                      /\ phrase_at(i) # {}}
        first == CHOOSE i \in starts : \A k \in starts : i <= k
        phrase == CHOOSE ph \in phrase_at(first) : TRUE
        stop == first + Len(phrase)
    IN  IF starts = {} THEN text
        ELSE SubSeq(text, 1, first - 1) \o <<" ">>
                 \o RemoveBoilerplate(SubSeq(text, stop, Len(text)),
                                      text[stop - 1] \in WordChars)

Ellipsis == <<".", ".", ".">>

\* A cut at max_chars characters with the marker put after them.
EllipsisAfterCap(text, max_chars) ==
    IF Len(text) > max_chars
    THEN RStrip(SubSeq(text, 1, max_chars)) \o Ellipsis
    ELSE text

\* "if len(result) > max_chars: result = result[: max_chars - 3].rstrip() + "...""
EllipsisWithinCap(text, max_chars) ==
    IF Len(text) > max_chars
    THEN RStrip(SubSeq(text, 1, max_chars - 3)) \o Ellipsis
    ELSE text

\* The text of _clean_section_text before the substitutions that split it
CleanedText(text) ==
    Strip(CollapseWhitespace(
        RemoveDoiTokens(RemoveUrls(JoinHyphenated(ReplaceNul(text))))))

\* "result" of _clean_section_text before the cut to max_chars
SelectedOrFallback(text, max_sentences) ==
    LET cleaned_text == CleanedText(text)
        selected == SelectSentences(SplitAfterEnd(cleaned_text), <<>>, {}, max_sentences)
    IN  IF selected # <<>>
        THEN JoinWithSpace(selected)
        ELSE Strip(CollapseWhitespace(RemoveBoilerplate(cleaned_text, FALSE)))

_clean_section_text(text, max_sentences, max_chars) ==
    IF text = <<>> THEN <<>>
    ELSE EllipsisWithinCap(SelectedOrFallback(text, max_sentences), max_chars)

\* The keys of the dictionary analyze_uploaded_paper merges, in its order
MergedKeys ==
    <<"insights", "literature_review", "method_used", "contributions",
      "limitations", "future_work", "citations", "research_gap">>

\* "limits": the sentence limit and the character limit of each key
limits ==
    [insights |-> <<5, 900>>,
     literature_review |-> <<4, 780>>,
     method_used |-> <<4, 780>>,
     contributions |-> <<4, 780>>,
     limitations |-> <<4, 780>>,
     future_work |-> <<4, 780>>,
     research_gap |-> <<4, 900>>]

\* "limits.get(key, (4, 780))"
LimitsOf(key) == IF key \in DOMAIN limits THEN limits[key] ELSE <<4, 780>>

\* One turn of the loop of _format_section_output
FormattedValue(key, value) ==
    IF key = "citations"
    THEN _normalize_whitespace(value)
    ELSE _clean_section_text(value, LimitsOf(key)[1], LimitsOf(key)[2])

_format_section_output(sections_in) ==
    [key \in DOMAIN sections_in |-> FormattedValue(key, sections_in[key])]

\* The sentences the formatted texts are made of, as lists of parts
ModelLearns == <<"T", "h", "e", " ", "m", "o", "d", "e", "l", " ", "l", "e", "a",
      "r", "n", "s", " ", "r", "o", "b", "u", "s", "t", " ", "f", "e", "a", "t", "u",
      "r", "e", "s", " ", "f", "r", "o", "m", " ", "s", "p", "a", "r", "s", "e", " ",
      "d", "a", "t", "a", ".">>
CodeReleased == <<"T", "h", "e", " ", "c", "o", "m", "p", "l", "e", "t", "e", " ",
      "c", "o", "d", "e", " ", "i", "s", " ", "r", "e", "l", "e", "a", "s", "e", "d",
      " ", "a", "t", " ", "h", "t", "t", "p", "s", ":", "/", "/", "e", "x", ".", "o",
      "r", "g", "/", "c", " ", "f", "o", "r", " ", "a", "l", "l", " ", "i", "n", "t",
      "e", "r", "e", "s", "t", "e", "d", " ", "u", "s", "e", "r", "s", ".">>
PriorWork == <<"P", "r", "i", "o", "r", " ", "w", "o", "r", "k", " ", "r", "e", "l",
      "i", "e", "d", " ", "o", "n", " ", "h", "a", "n", "d", "-", " ", "c", "r", "a",
      "f", "t", "e", "d", " ", "r", "u", "l", "e", "s", " ", "f", "o", "r", " ", "p",
      "a", "r", "s", "i", "n", "g", ".">>
SeeDoi == <<"S", "e", "e", " ", "d", "o", "i", ":", " ", "1", "0", ".", "1", "/",
      "x", " ", "f", "o", "r", " ", "t", "h", "e", " ", "f", "u", "l", "l", " ", "d",
      "e", "s", "c", "r", "i", "p", "t", "i", "o", "n", " ", "o", "f", " ", "t", "h",
      "e", " ", "b", "e", "n", "c", "h", "m", "a", "r", "k", ".">>
CostlyApproach == <<"H", "o", "w", "e", "v", "e", "r", " ", "t", "h", "e", " ", "a",
      "p", "p", "r", "o", "a", "c", "h", " ", "i", "s", " ", "c", "o", "s", "t", "l",
      "y", " ", "o", "n", " ", "v", "e", "r", "y", " ", "l", "a", "r", "g", "e", " ",
      "g", "r", "a", "p", "h", "s", ".">>
DynamicGraphs == <<"F", "u", "t", "u", "r", "e", " ", "w", "o", "r", "k", " ", "w",
      "i", "l", "l", " ", "e", "x", "t", "e", "n", "d", " ", "t", "h", "e", " ", "m",
      "e", "t", "h", "o", "d", " ", "t", "o", " ", "d", "y", "n", "a", "m", "i", "c",
      " ", "g", "r", "a", "p", "h", "s", ".">>
ModelLearnsAgain == <<"T", "H", "E", " ", "M", "O", "D", "E", "L", " ", " ", "l",
      "e", "a", "r", "n", "s", " ", "r", "o", "b", "u", "s", "t", " ", "f", "e", "a",
      "t", "u", "r", "e", "s", ",", " ", "f", "r", "o", "m", " ", "s", "p", "a", "r",
      "s", "e", " ", "d", "a", "t", "a", "!">>
SeeTheText == <<"S", "e",
      "e">> \o <<Nul>> \o <<"t", "h", "e", " ", "t", "e", "x", "t", ".">>
LongClause == <<",", " ", "a", "n", "d", " ", "i", "t", " ", "s", "c", "a", "l", "e",
      "s", " ", "t", "o", " ", "l", "a", "r", "g", "e", "r", " ", "g", "r", "a", "p",
      "h", "s">>
FirstMethod == <<"T", "h", "e", " ", "f", "i", "r", "s", "t", " ", "m", "e", "t",
      "h", "o", "d", " ", "l", "e", "a", "r", "n", "s", " ", "n", "o", "d", "e", " ",
      "e", "m", "b", "e", "d", "d", "i", "n", "g", "s">>
SecondMethod == <<"A", " ", "s", "e", "c", "o", "n", "d", " ", "m", "e", "t", "h",
      "o", "d", " ", "p", "r", "u", "n", "e", "s", " ", "t", "h", "e", " ", "w", "e",
      "a", "k", "e", "s", "t", " ", "e", "d", "g", "e", "s">>
UnderCopyright == <<"T", "h", "i", "s", " ", "a", "r", "t", "i", "c", "l", "e", " ",
      "i", "s", " ", "u", "n", "d", "e", "r", " ", "c", "o", "p", "y", "r", "i", "g",
      "h", "t", " ", "o", "f", " ", "t", "h", "e", " ", "p", "r", "e", "s", "s">>

\* The clauses of a long sentence
LongClauses == 15
MaxParts == 2

\* "text" n times over
Repeated(text, n) ==
    LET f == [i \in 1..(n * Len(text)) |-> text[((i - 1) % Len(text)) + 1]]
    IN  SubSeq(f, 1, n * Len(text))

LongSentence(lead) == lead \o Repeated(LongClause, LongClauses) \o <<".">>

FormatParts ==
    {JoinWithSpace(<<ModelLearns, CodeReleased, PriorWork, SeeDoi, CostlyApproach,
                     DynamicGraphs>>),
     ModelLearnsAgain,
     SeeTheText,
     LongSentence(FirstMethod),
     LongSentence(SecondMethod),
     LongSentence(UnderCopyright)}

FormatTexts == {JoinWithSpace(ps) : ps \in SeqsUpTo(FormatParts, MaxParts)}

MergedKeySet == {MergedKeys[i] : i \in 1..Len(MergedKeys)}

\* The dictionaries given to _format_section_output: one key holds a text, the
\* others what extract gives for a text without sentences
FormatInputs ==
    {[k \in MergedKeySet |-> IF k = key THEN text ELSE NotEnoughInformation] :
        key \in MergedKeySet, text \in FormatTexts}

FormatInit ==
    /\ fmt_in \in FormatInputs
    /\ cleaned = None
    /\ fpc = "format"

\* "merged = _format_section_output(merged)"
FormatSections ==
    /\ fpc = "format"
    /\ cleaned' = Some(_format_section_output(fmt_in))
    /\ fpc' = "done"
    /\ UNCHANGED fmt_in

FormatIdle ==
    /\ fmt_in = <<>>
    /\ cleaned = None
    /\ fpc = "idle"

(***************************************************************************)
(* upload_analyzer.py: analyze_uploaded_paper, _extract_sections_by_       *)
(* headings, _find_heading_index, _collect_until_next_heading,             *)
(* _extract_citations_section and _infer_doi                               *)
(*                                                                         *)
(* upload_text is the text _extract_text_and_metadata read from the file.  *)
(* UploadAnalyze is the local analysis and the start of the enrichment     *)
(* (lines 29-55), the passes are the Lookup and Fetch actions above, and   *)
(* UploadReturn is what follows them (lines 64-99).  The titles of the     *)
(* passes come from the metadata, the text and the filename; the model     *)
(* keeps of each whether it is empty.  Of the dictionary returned the      *)
(* model keeps source, paper_url, pdf_url and sections.  Positions in a    *)
(* list count from 1, and 0 stands for None.                               *)
(***************************************************************************)
SECTION_HEADINGS ==
    [literature_review |->
         <<<<"r", "e", "l", "a", "t", "e", "d", " ", "w", "o", "r", "k">>,
           <<"l", "i", "t", "e", "r", "a", "t", "u", "r", "e", " ", "r", "e", "v",
             "i", "e", "w">>,
           <<"b", "a", "c", "k", "g", "r", "o", "u", "n", "d">>>>,
     method_used |->
         <<<<"m", "e", "t", "h", "o", "d">>,
           <<"m", "e", "t", "h", "o", "d", "o", "l", "o", "g", "y">>,
           <<"a", "p", "p", "r", "o", "a", "c", "h">>,
           <<"f", "r", "a", "m", "e", "w", "o", "r", "k">>,
           <<"e", "x", "p", "e", "r", "i", "m", "e", "n", "t", "a", "l", " ", "s",
             "e", "t", "u", "p">>>>,
     contributions |->
         <<<<"c", "o", "n", "t", "r", "i", "b", "u", "t", "i", "o", "n">>,
           <<"m", "a", "i", "n", " ", "c", "o", "n", "t", "r", "i", "b", "u", "t",
             "i", "o", "n">>>>,
     limitations |->
         <<<<"l", "i", "m", "i", "t", "a", "t", "i", "o", "n">>,
           <<"t", "h", "r", "e", "a", "t", "s", " ", "t", "o", " ", "v", "a", "l",
             "i", "d", "i", "t", "y">>,
           <<"d", "i", "s", "c", "u", "s", "s", "i", "o", "n">>>>,
     future_work |->
         <<<<"f", "u", "t", "u", "r", "e", " ", "w", "o", "r", "k">>,
           <<"c", "o", "n", "c", "l", "u", "s", "i", "o", "n", " ", "a", "n", "d",
             " ", "f", "u", "t", "u", "r", "e", " ", "w", "o", "r", "k">>>>,
     citations |->
         <<<<"r", "e", "f", "e", "r", "e", "n", "c", "e", "s">>,
           <<"b", "i", "b", "l", "i", "o", "g", "r", "a", "p", "h", "y">>>>]

\* SectionExtractor.extract(abstract) as the value it returns
extract(text) ==
    LET sents == _split_sentences(text)
        texts == [i \in 1..Len(ExtractedSections) |->
                     _extract_section_text(sents, ExtractedSections[i],
                                           TopK(ExtractedSections[i]))]
        fw == IF Contains(texts[5], NotExplicitlyStated)
              THEN _derive_future_work(texts[4])
              ELSE texts[5]
    IN  IF sents = <<>> THEN InsufficientFields(Sections)
        ELSE [insights |-> _build_insights(sents, texts[2], texts[3]),
              literature_review |-> texts[1],
              method_used |-> texts[2],
              contributions |-> texts[3],
              limitations |-> texts[4],
              future_work |-> fw,
              research_gap |-> _derive_research_gap(texts[1], texts[4], fw)]

\* str.splitlines()
RECURSIVE SplitLines(_)
SplitLines(text) ==
    LET newline == FirstIn(text, 1, {"\n"})
    IN  IF text = <<>> THEN <<>>
        ELSE IF newline = 0 THEN <<text>>
        ELSE <<SubSeq(text, 1, newline - 1)>>
                 \o SplitLines(SubSeq(text, newline + 1, Len(text)))

\* "[ln.strip() for ln in text.splitlines()]" without the empty lines
StrippedLines(text) ==
    LET lines == SplitLines(text)
        stripped == [i \in 1..Len(lines) |-> Strip(lines[i])]
    IN  SelectSeq(stripped, LAMBDA ln : ln # <<>>)

\* The last position of the run of digits that starts at i, i - 1 for none
DigitsEnd(text, i) ==
    LET stop == FirstNotIn(text, i, Digits)
    IN  IF i > Len(text) THEN i - 1
        ELSE IF stop = 0 THEN Len(text)
        ELSE stop - 1

\* (\.\d+)* after a match that ends at e
RECURSIVE DottedEnd(_, _)
DottedEnd(text, e) ==
    IF e + 2 <= Len(text) /\ text[e + 1] = "." /\ text[e + 2] \in Digits
    THEN DottedEnd(text, DigitsEnd(text, e + 2))
    ELSE e

\* The end of the match of ^\d+(\.\d+)* in line, 0 for no match
NumberingEnd(line) ==
    IF DigitsEnd(line, 1) = 0 THEN 0 ELSE DottedEnd(line, DigitsEnd(line, 1))

\* "re.sub(r"^\d+(\.\d+)*\s*", "", line).strip()"
StripNumbering(line) == Strip(SubSeq(line, NumberingEnd(line) + 1, Len(line)))

\* re.fullmatch(pat, compact) or re.fullmatch(pat + r"\s*[:\-]?", compact)
HeadingMatches(compact, pat) ==
    \/ compact = pat
    \/ /\ Len(compact) > Len(pat)
       /\ StartsAt(compact, 1, pat)
       /\ LStrip(SubSeq(compact, Len(pat) + 1, Len(compact))) \in {<<>>, <<
             ":">>, <<"-">>}

_find_heading_index(lines, patterns) ==
    LET hits == {i \in 1..Len(lines) :
                    \E p \in 1..Len(patterns) :
                        HeadingMatches(StripNumbering(lines[i]), patterns[p])}
    IN  IF hits = {} THEN 0 ELSE CHOOSE i \in hits : \A k \in hits : i <= k

\* heading_like.match(ln), for r"^(\d+(\.\d+)*)?\s*[A-Z][A-Za-z0-9\s\-]{2,50}$"
HeadingLike(ln) ==
    LET body == LStrip(SubSeq(ln, NumberingEnd(ln) + 1, Len(ln)))
    IN  /\ body # <<>>
        /\ body[1] \in DOMAIN LowerOfUpper
        /\ Len(body) - 1 \in 2..50
        /\ \A i \in 2..Len(body) : body[i] \in Letters \cup Digits \cup Whitespace \cup {"-"}

\* The loop of _collect_until_next_heading
RECURSIVE CollectChunks(_, _)
CollectChunks(lines, chunks) ==
    IF lines = <<>> THEN chunks
    ELSE IF HeadingLike(Head(lines)) /\ Len(chunks) > 4 THEN chunks
    ELSE LET more == Append(chunks, Head(lines))
         IN  IF Len(JoinWithSpace(more)) > 2600 THEN more
             ELSE CollectChunks(Tail(lines), more)

_collect_until_next_heading(lines, start_idx) ==
    Strip(JoinWithSpace(CollectChunks(SubSeq(lines, start_idx, Len(lines)), <<>>)))

\* The dictionary _extract_sections_by_headings returns: None for a key it
\* does not hold
_extract_sections_by_headings(text) ==
    LET filtered == StrippedLines(text)
        lower_lines == [i \in 1..Len(filtered) |-> Lower(filtered[i])]
        block(key) ==
            LET idx == _find_heading_index(lower_lines, SECTION_HEADINGS[key])
                section == _collect_until_next_heading(filtered, idx + 1)
            IN  IF idx = 0 \/ section = <<>> THEN None
                ELSE Some(SubSeq(section, 1, Min(Len(section), 2200)))
    IN  [key \in DOMAIN SECTION_HEADINGS |-> block(key)]

\* "heading_sections.get(key)"
HeadingOf(heading_sections, key) ==
    IF key \in DOMAIN heading_sections THEN heading_sections[key] ELSE None

\* set(re.findall(r"\[\d+\]", text))
RefMarkers(text) ==
    LET opens == {i \in 1..Len(text) :
                     /\ text[i] = "["
                     /\ DigitsEnd(text, i + 1) > i
                     /\ DigitsEnd(text, i + 1) < Len(text)
                     /\ text[DigitsEnd(text, i + 1) + 1] = "]"}
    IN  {SubSeq(text, i, DigitsEnd(text, i + 1) + 1) : i \in opens}

DigitChars == <<"0", "1", "2", "3", "4", "5", "6", "7", "8", "9">>

\* str(n) of an f-string
RECURSIVE Decimal(_)
Decimal(n) ==
    IF n < 10 THEN <<DigitChars[n + 1]>>
    ELSE Decimal(n \div 10) \o <<DigitChars[(n % 10) + 1]>>

ReferencesWithLead == <<"R", "e", "f", "e", "r", "e", "n", "c", "e", "s", " ", "s",
      "e", "c", "t", "i", "o", "n", " ", "d", "e", "t", "e", "c", "t", "e", "d", " ",
      "w", "i", "t", "h", " ", "a", "t", " ", "l", "e", "a", "s", "t", " ">>
DetectedLead == <<"D", "e", "t", "e", "c", "t", "e", "d", " ", "a", "t", " ", "l",
      "e", "a", "s", "t", " ">>
IndexedCitations == <<" ", "i", "n", "d", "e", "x", "e", "d", " ", "c", "i", "t",
      "a", "t", "i", "o", "n", "s", ".">>
IndexedInDocument == <<" ", "i", "n", "d", "e", "x", "e", "d", " ", "c", "i", "t",
      "a", "t", "i", "o", "n", "s", " ", "i", "n", " ", "t", "h", "e", " ", "d", "o",
      "c", "u", "m", "e", "n", "t", ".">>
ReferencesDetected == <<"R", "e", "f", "e", "r", "e", "n", "c", "e", "s", " ", "s",
      "e", "c", "t", "i", "o", "n", " ", "d", "e", "t", "e", "c", "t", "e", "d", " ",
      "i", "n", " ", "u", "p", "l", "o", "a", "d", "e", "d", " ", "p", "a", "p", "e",
      "r", ".">>
CitationsNotIdentifiable == <<"C", "i", "t", "a", "t", "i", "o", "n", "s", " ", "n",
      "o", "t", " ", "c", "l", "e", "a", "r", "l", "y", " ", "i", "d", "e", "n", "t",
      "i", "f", "i", "a", "b", "l", "e", " ", "f", "r", "o", "m", " ", "e", "x", "t",
      "r", "a", "c", "t", "e", "d", " ", "t", "e", "x", "t", ".">>

_extract_citations_section(text, heading_value) ==
    IF heading_value # None /\ Val(heading_value) # <<>>
    THEN IF RefMarkers(Val(heading_value)) # {}
         THEN ReferencesWithLead
                  \o Decimal(Cardinality(RefMarkers(Val(heading_value))))
                  \o IndexedCitations
         ELSE ReferencesDetected
    ELSE IF RefMarkers(text) # {}
         THEN DetectedLead \o Decimal(Cardinality(RefMarkers(text))) \o IndexedInDocument
         ELSE CitationsNotIdentifiable

\* The class [-._;()/:A-Z0-9] under re.IGNORECASE
DoiChars == Letters \cup Digits \cup {"-", ".", "_", ";", "(", ")", "/", ":"}
DoiStart == <<"1", "0", ".">>

\* The end of the match of \b10\.\d{4,9}/[-._;()/:A-Z0-9]+\b at i, 0 for none
DoiEnd(text, i) ==
    LET registrant_end == DigitsEnd(text, i + Len(DoiStart))
        registrant_len == registrant_end - (i + Len(DoiStart)) + 1
        stop == FirstNotIn(text, registrant_end + 2, DoiChars)
        run_end == IF stop = 0 THEN Len(text) ELSE stop - 1
        ends == {j \in (registrant_end + 2)..run_end : WordBoundary(text, j + 1)}
    IN  IF /\ StartsAt(text, i, DoiStart)
           /\ WordBoundary(text, i)
           /\ registrant_len \in 4..9
           /\ registrant_end + 2 <= Len(text)
           /\ text[registrant_end + 1] = "/"
           /\ ends # {}
        THEN CHOOSE j \in ends : \A k \in ends : k <= j
        ELSE 0

\* _infer_doi(text): the first match, None for none
_infer_doi(text) ==
    LET starts == {i \in 1..Len(text) : text[i] = "1" /\ DoiEnd(text, i) # 0}
        first == CHOOSE i \in starts : \A k \in starts : i <= k
    IN  IF starts = {} THEN None ELSE Some(SubSeq(text, first, DoiEnd(text, first)))

\* The dictionary "merged" of analyze_uploaded_paper before it is formatted
MergedSections(text) ==
    LET compact_text == _normalize_whitespace(text)
        base_sections == extract(SubSeq(compact_text, 1, Min(Len(compact_text), 25000)))
        heading_sections == _extract_sections_by_headings(compact_text)
        picked(key) == _pick(HeadingOf(heading_sections, key), base_sections[key])
    IN  [insights |-> picked("insights"),
         literature_review |-> picked("literature_review"),
         method_used |-> picked("method_used"),
         contributions |-> picked("contributions"),
         limitations |-> picked("limitations"),
         future_work |-> picked("future_work"),
         citations |-> _extract_citations_section(
                           compact_text, HeadingOf(heading_sections, "citations")),
         research_gap |-> base_sections.research_gap]

CitedByLead == <<"C", "i", "t", "e", "d", " ", "b", "y", " ", "a", "p", "p", "r",
      "o", "x", "i", "m", "a", "t", "e", "l", "y", " ">>
CitedByTail == <<" ", "p", "a", "p", "e", "r", "s", " ", "(", "S", "e", "m", "a",
      "n", "t", "i", "c", " ", "S", "c", "h", "o", "l", "a", "r", ")", ".">>
CountNotInMetadata == <<"C", "i", "t", "a", "t", "i", "o", "n", " ", "c", "o", "u",
      "n", "t", " ", "u", "n", "a", "v", "a", "i", "l", "a", "b", "l", "e", " ", "i",
      "n", " ", "m", "e", "t", "a", "d", "a", "t", "a", ".">>
NoMetadataMatch == <<"C", "i", "t", "a", "t", "i", "o", "n", " ", "c", "o", "u", "n",
      "t", " ", "u", "n", "a", "v", "a", "i", "l", "a", "b", "l", "e", " ", "f", "o",
      "r", " ", "l", "o", "c", "a", "l", " ", "u", "p", "l", "o", "a", "d", " ", "w",
      "i", "t", "h", "o", "u", "t", " ", "m", "e", "t", "a", "d", "a", "t", "a", " ",
      "m", "a", "t", "c", "h", ".", " ", "U", "p", "l", "o", "a", "d", " ", "w", "i",
      "t", "h", " ", "D", "O", "I", "/", "t", "i", "t", "l", "e", " ", "m", "e", "t",
      "a", "d", "a", "t", "a", " ", "f", "o", "r", " ", "b", "e", "t", "t", "e", "r",
      " ", "c", "i", "t", "a", "t", "i", "o", "n", " ", "r", "e", "t", "r", "i", "e",
      "v", "a", "l", ".">>

\* What Semantic Scholar can hold of a paper: its citationCount (None for
\* null) and its url
EnrichItems ==
    {[citation_count |-> None, paper_url |-> "", pdf_url |-> ""],
     [citation_count |-> Some(12), paper_url |-> "https://www.semanticscholar.org/paper/1",
      pdf_url |-> ""],
     [citation_count |-> Some(0), paper_url |-> "https://www.semanticscholar.org/paper/2",
      pdf_url |-> "https://arxiv.org/pdf/1"]}

\* "citation_note", for the record of the enrichment (None for none)
CitationNote(item) ==
    IF item = None THEN NoMetadataMatch
    ELSE IF Val(item).citation_count # None
         THEN CitedByLead \o Decimal(Val(Val(item).citation_count)) \o CitedByTail
         ELSE CountNotInMetadata

\* A label that names the enrichment whatever its outcome.
SourceAlwaysEnriched(item) ==
    "Uploaded document + local analysis + Semantic Scholar enrichment"

\* "source"
SourceLabel(item) ==
    IF item # None
    THEN "Uploaded document + local analysis + Semantic Scholar enrichment"
    ELSE "Uploaded document + local analysis"

\* The uploaded texts: headings on lines of their own, a text of one line,
\* reference markers and a DOI, a heading with nothing after it, whitespace
UploadTexts ==
    {<<"R", "e", "l", "a", "t", "e", "d", " ", "W", "o", "r", "k", "\n", "P", "r",
       "i", "o", "r", " ", "w", "o", "r", "k", " ", "u", "s", "e", "d", " ", "r",
       "u", "l", "e", "s", ".", "\n", "M", "e", "t", "h", "o", "d", "\n", "W", "e",
       " ", "p", "r", "o", "p", "o", "s", "e", " ", "a", " ", "n", "e", "w", " ",
       "m", "o", "d", "e", "l", ".", "\n">>,
     <<"W", "e", " ", "p", "r", "o", "p", "o", "s", "e", " ", "a", " ", "n", "e",
       "w", " ", "m", "o", "d", "e", "l", ".", " ", "H", "o", "w", "e", "v", "e",
       "r", " ", "i", "t", " ", "i", "s", " ", "c", "o", "s", "t", "l", "y", ".">>,
     <<"E", "x", "i", "s", "t", "i", "n", "g", " ", "m", "e", "t", "h", "o", "d",
       "s", " ", "f", "a", "i", "l", " ", "[", "1", "]", ".", "\n", "2", " ", "R",
       "e", "f", "e", "r", "e", "n", "c", "e", "s", "\n", "[", "1", "]", " ", "A",
       ".", " ", "[", "2", "]", " ", "B", ".", " ", "[", "1", "]", " ", "C", ".",
       "\n", "h", "t", "t", "p", "s", ":", "/", "/", "d", "o", "i", ".", "o", "r",
       "g", "/", "1", "0", ".", "1", "0", "0", "0", "/", "x", "1", "\n">>,
     <<"F", "u", "t", "u", "r", "e", " ", "w", "o", "r", "k", ":", "\n">>,
     <<" ", "\n", "\t">>,
     <<"D", "i", "s", "c", "u", "s", "s", "i", "o", "n", "\n", "H", "o", "w", "e",
       "v", "e", "r", " ", "i", "t", " ", "i", "s", " ", "c", "o", "s", "t", "l",
       "y", ".", "\n", "3", ".", "1", " ", "F", "u", "t", "u", "r", "e", " ", "W",
       "o", "r", "k", " ", "-", "\n", "F", "u", "t", "u", "r", "e", " ", "w", "o",
       "r", "k", " ", "i", "s", " ", "p", "l", "a", "n", "n", "e", "d", ".", "\n">>}

\* The titles of the three passes: when the filename gives a title (the
\* third), the first two passes have one as well
UploadTitles ==
    {t \in [1..PassCount -> {None, Some("title")}] :
        t[3] # None => (t[1] # None /\ t[2] # None)}

UploadInit ==
    /\ upload_text \in UploadTexts
    /\ merged = None
    /\ upload_result = None
    /\ upc = "analyze"

\* lines 29-55: the local analysis, the titles, the DOI; the first pass is
\* about to be made
UploadAnalyze ==
    /\ upc = "analyze"
    /\ merged' = Some(_format_section_output(MergedSections(upload_text)))
    /\ doi' = _infer_doi(_normalize_whitespace(upload_text))
    /\ titles' \in UploadTitles
    /\ epass' = 1
    /\ calls' = <<>>
    /\ enrich' = None
    /\ epc' = "lookup"
    /\ upc' = "enrich"
    /\ UNCHANGED <<upload_text, upload_result, fetchVars>>

\* lines 64-99: the passes are over
UploadReturn ==
    /\ upc = "enrich"
    /\ epc = "done"
    /\ \E record \in EnrichItems :
          LET item == IF enrich = None THEN None ELSE Some(record)
              citations == _pick(Some(Val(merged).citations), CitationNote(item))
          IN  upload_result' =
                  Some([source |-> SourceLabel(item),
                        paper_url |-> IF item = None THEN "" ELSE record.paper_url,
                        pdf_url |-> IF item = None THEN "" ELSE record.pdf_url,
                        sections |-> [Val(merged) EXCEPT !.citations = citations]])
    /\ upc' = "done"
    /\ UNCHANGED <<upload_text, merged, enrichVars, fetchVars>>

UploadIdle ==
    /\ upload_text = <<>>
    /\ merged = None
    /\ upload_result = None
    /\ upc = "idle"

(***************************************************************************)
(* Specifications                                                          *)
(***************************************************************************)
otherThanDedupe ==
    <<queryVars, graphVars, fetchVars, enrichVars,
      matchVars, searchVars, extractVars, formatVars, uploadVars>>
SpecDedupeInit ==
    /\ DedupeInit
    /\ QueryIdle
    /\ GraphIdle
    /\ FetchIdle
    /\ EnrichIdle
    /\ MatchIdle
    /\ SearchIdle
    /\ ExtractIdle
    /\ FormatIdle
    /\ UploadIdle
SpecDedupeNext ==
    \/ DedupeStep /\ UNCHANGED otherThanDedupe
    \/ DedupeReturn /\ UNCHANGED otherThanDedupe
SpecDedupe == SpecDedupeInit /\ [][SpecDedupeNext]_vars

otherThanQuery ==
    <<dedupeVars, graphVars, fetchVars, enrichVars,
      matchVars, searchVars, extractVars, formatVars, uploadVars>>
SpecQueryInit ==
    /\ QueryInit
    /\ DedupeIdle
    /\ GraphIdle
    /\ FetchIdle
    /\ EnrichIdle
    /\ MatchIdle
    /\ SearchIdle
    /\ ExtractIdle
    /\ FormatIdle
    /\ UploadIdle
SpecQueryNext ==
    \/ QuerySearch /\ UNCHANGED otherThanQuery
    \/ QueryFilter /\ UNCHANGED otherThanQuery
    \/ QueryDedupe /\ UNCHANGED otherThanQuery
    \/ QueryTruncate /\ UNCHANGED otherThanQuery
    \/ QueryClassify /\ UNCHANGED otherThanQuery
SpecQuery == SpecQueryInit /\ [][SpecQueryNext]_vars

otherThanGraph ==
    <<dedupeVars, queryVars, fetchVars, enrichVars,
      matchVars, searchVars, extractVars, formatVars, uploadVars>>
SpecGraphInit ==
    /\ GraphInit
    /\ DedupeIdle
    /\ QueryIdle
    /\ FetchIdle
    /\ EnrichIdle
    /\ MatchIdle
    /\ SearchIdle
    /\ ExtractIdle
    /\ FormatIdle
    /\ UploadIdle
SpecGraphNext ==
    \/ GraphNoPapers /\ UNCHANGED otherThanGraph
    \/ GraphOnePaper /\ UNCHANGED otherThanGraph
    \/ GraphAddNodes /\ UNCHANGED otherThanGraph
    \/ GraphAddEdges /\ UNCHANGED otherThanGraph
    \/ GraphChainFallback /\ UNCHANGED otherThanGraph
    \/ GraphKeepEdges /\ UNCHANGED otherThanGraph
    \/ GraphLayout /\ UNCHANGED otherThanGraph
SpecGraph == SpecGraphInit /\ [][SpecGraphNext]_vars

otherThanFetch ==
    <<dedupeVars, queryVars, graphVars, enrichVars,
      matchVars, searchVars, extractVars, formatVars, uploadVars>>
SpecFetchInit ==
    /\ FetchInit
    /\ DedupeIdle
    /\ QueryIdle
    /\ GraphIdle
    /\ EnrichIdle
    /\ MatchIdle
    /\ SearchIdle
    /\ ExtractIdle
    /\ FormatIdle
    /\ UploadIdle
SpecFetchNext ==
    \/ FetchRetryStatus /\ UNCHANGED otherThanFetch
    \/ FetchHttpError /\ UNCHANGED otherThanFetch
    \/ FetchTimeout /\ UNCHANGED otherThanFetch
    \/ FetchRequestException /\ UNCHANGED otherThanFetch
    \/ FetchOk /\ UNCHANGED otherThanFetch
    \/ FetchBadJson /\ UNCHANGED otherThanFetch
    \/ FetchNoAttempt /\ UNCHANGED otherThanFetch
SpecFetch == SpecFetchInit /\ [][SpecFetchNext]_vars

otherThanEnrich ==
    <<dedupeVars, queryVars, graphVars, matchVars,
      searchVars, extractVars, formatVars, uploadVars>>
SpecEnrichInit ==
    /\ EnrichInit
    /\ DedupeIdle
    /\ QueryIdle
    /\ GraphIdle
    /\ FetchIdle
    /\ MatchIdle
    /\ SearchIdle
    /\ ExtractIdle
    /\ FormatIdle
    /\ UploadIdle
SpecEnrichNext ==
    \/ LookupDoiStart /\ UNCHANGED otherThanEnrich
    \/ LookupNoDoi /\ UNCHANGED otherThanEnrich
    \/ LookupDoiReturn /\ UNCHANGED otherThanEnrich
    \/ LookupNoTitle /\ UNCHANGED otherThanEnrich
    \/ LookupTitleStart /\ UNCHANGED otherThanEnrich
    \/ LookupTitleReturn /\ UNCHANGED otherThanEnrich
    \/ FetchRetryStatus /\ UNCHANGED <<otherThanEnrich, enrichVars>>
    \/ FetchHttpError /\ UNCHANGED <<otherThanEnrich, enrichVars>>
    \/ FetchTimeout /\ UNCHANGED <<otherThanEnrich, enrichVars>>
    \/ FetchRequestException /\ UNCHANGED <<otherThanEnrich, enrichVars>>
    \/ FetchOk /\ UNCHANGED <<otherThanEnrich, enrichVars>>
    \/ FetchBadJson /\ UNCHANGED <<otherThanEnrich, enrichVars>>
SpecEnrich == SpecEnrichInit /\ [][SpecEnrichNext]_vars

otherThanMatch ==
    <<dedupeVars, queryVars, graphVars, fetchVars,
      enrichVars, searchVars, extractVars, formatVars, uploadVars>>
SpecMatchInit ==
    /\ MatchInit
    /\ DedupeIdle
    /\ QueryIdle
    /\ GraphIdle
    /\ FetchIdle
    /\ EnrichIdle
    /\ SearchIdle
    /\ ExtractIdle
    /\ FormatIdle
    /\ UploadIdle
SpecMatchNext ==
    \/ MatchNoTokens /\ UNCHANGED otherThanMatch
    \/ MatchRank /\ UNCHANGED otherThanMatch
    \/ MatchReturn /\ UNCHANGED otherThanMatch
SpecMatch == SpecMatchInit /\ [][SpecMatchNext]_vars

otherThanSearch ==
    <<dedupeVars, queryVars, graphVars, fetchVars,
      enrichVars, matchVars, extractVars, formatVars, uploadVars>>
SpecSearchInit ==
    /\ SearchInit
    /\ DedupeIdle
    /\ QueryIdle
    /\ GraphIdle
    /\ FetchIdle
    /\ EnrichIdle
    /\ MatchIdle
    /\ ExtractIdle
    /\ FormatIdle
    /\ UploadIdle
SpecSearchNext ==
    \/ SearchArxivAnswers /\ UNCHANGED otherThanSearch
    \/ SearchArxivRaises /\ UNCHANGED otherThanSearch
    \/ SearchS2Answers /\ UNCHANGED otherThanSearch
    \/ SearchS2Raises /\ UNCHANGED otherThanSearch
    \/ FallbackArxivAnswers /\ UNCHANGED otherThanSearch
    \/ FallbackArxivRaises /\ UNCHANGED otherThanSearch
SpecSearch == SpecSearchInit /\ [][SpecSearchNext]_vars

otherThanExtract ==
    <<dedupeVars, queryVars, graphVars, fetchVars,
      enrichVars, matchVars, searchVars, formatVars, uploadVars>>
SpecExtractInit ==
    /\ ExtractInit
    /\ DedupeIdle
    /\ QueryIdle
    /\ GraphIdle
    /\ FetchIdle
    /\ EnrichIdle
    /\ MatchIdle
    /\ SearchIdle
    /\ FormatIdle
    /\ UploadIdle
SpecExtractNext ==
    \/ ExtractSplit /\ UNCHANGED otherThanExtract
    \/ ExtractNoSentences /\ UNCHANGED otherThanExtract
    \/ ExtractSectionTexts /\ UNCHANGED otherThanExtract
    \/ ExtractDeriveFutureWork /\ UNCHANGED otherThanExtract
    \/ ExtractKeepFutureWork /\ UNCHANGED otherThanExtract
    \/ ExtractReturn /\ UNCHANGED otherThanExtract
SpecExtract == SpecExtractInit /\ [][SpecExtractNext]_vars

otherThanFormat ==
    <<dedupeVars, queryVars, graphVars, fetchVars,
      enrichVars, matchVars, searchVars, extractVars, uploadVars>>
SpecFormatInit ==
    /\ FormatInit
    /\ DedupeIdle
    /\ QueryIdle
    /\ GraphIdle
    /\ FetchIdle
    /\ EnrichIdle
    /\ MatchIdle
    /\ SearchIdle
    /\ ExtractIdle
    /\ UploadIdle
SpecFormatNext ==
    \/ FormatSections /\ UNCHANGED otherThanFormat
SpecFormat == SpecFormatInit /\ [][SpecFormatNext]_vars

otherThanUpload ==
    <<dedupeVars, queryVars, graphVars, matchVars,
      searchVars, extractVars, formatVars>>
SpecUploadInit ==
    /\ UploadInit
    /\ DedupeIdle
    /\ QueryIdle
    /\ GraphIdle
    /\ FetchIdle
    /\ EnrichIdle
    /\ MatchIdle
    /\ SearchIdle
    /\ ExtractIdle
    /\ FormatIdle
SpecUploadNext ==
    \/ UploadAnalyze /\ UNCHANGED otherThanUpload
    \/ UploadReturn /\ UNCHANGED otherThanUpload
    \/ LookupDoiStart /\ UNCHANGED <<otherThanUpload, uploadVars>>
    \/ LookupNoDoi /\ UNCHANGED <<otherThanUpload, uploadVars>>
    \/ LookupDoiReturn /\ UNCHANGED <<otherThanUpload, uploadVars>>
    \/ LookupNoTitle /\ UNCHANGED <<otherThanUpload, uploadVars>>
    \/ LookupTitleStart /\ UNCHANGED <<otherThanUpload, uploadVars>>
    \/ LookupTitleReturn /\ UNCHANGED <<otherThanUpload, uploadVars>>
    \/ FetchRetryStatus /\ UNCHANGED <<otherThanUpload, uploadVars, enrichVars>>
    \/ FetchHttpError /\ UNCHANGED <<otherThanUpload, uploadVars, enrichVars>>
    \/ FetchTimeout /\ UNCHANGED <<otherThanUpload, uploadVars, enrichVars>>
    \/ FetchRequestException /\ UNCHANGED <<otherThanUpload, uploadVars, enrichVars>>
    \/ FetchOk /\ UNCHANGED <<otherThanUpload, uploadVars, enrichVars>>
    \/ FetchBadJson /\ UNCHANGED <<otherThanUpload, uploadVars, enrichVars>>
SpecUpload == SpecUploadInit /\ [][SpecUploadNext]_vars

(***************************************************************************)
(* Properties                                                              *)
(***************************************************************************)
Range(f) == {f[i] : i \in DOMAIN f}
Count(f, x) == Cardinality({i \in DOMAIN f : f[i] = x})
Key(p) == normalize_title(p.title)

\* The items of its at the positions in I, in the order of its.
RECURSIVE PickFrom(_, _, _)
PickFrom(its, I, i) ==
    IF i > Len(its) THEN <<>>
    ELSE (IF i \in I THEN <<its[i]>> ELSE <<>>) \o PickFrom(its, I, i + 1)

\* The positions of its whose key no earlier position has.
FirstOccurrences(its) ==
    {i \in 1..Len(its) : \A k \in 1..(i - 1) : Key(its[k]) # Key(its[i])}

\* C1: dedupe_by_title returns a list in which no two items have equal
\* normalized titles, and the returned items are exactly the first occurrence
\* of each normalized title, in the same relative order as in the input.
C1_DedupeKeepsFirstOccurrences ==
    dpc = "done" =>
        /\ \A i, j \in 1..Len(output) : i # j => Key(output[i]) # Key(output[j])
        /\ output = PickFrom(items, FirstOccurrences(items), 1)

C1_Witness ==
    /\ dpc = "done"
    /\ Len(items) = 3
    /\ Len(output) = 2
    /\ Key(items[1]) = Key(items[3])
    /\ items[1] # items[3]

\* The stated rule: lowercase; keep only alphanumerics and spaces; then
\* collapse whitespace runs to one space; trim.
StatedNormalization(text) ==
    Strip(CollapseWhitespace(KeepAlnumSpace(Lower(text))))

\* C2: the key used by dedupe equals the title normalized by the stated
\* rule, so titles that differ only in letter case and in punctuation
\* (including punctuation surrounded by spaces or at the end after a space)
\* are duplicates and only the first is kept.
C2_KeyIsStatedNormalization ==
    dpc = "done" =>
        /\ seen = {StatedNormalization(items[i].title) : i \in 1..Len(items)}
        /\ \A i, j \in 1..Len(output) :
              i # j => StatedNormalization(output[i].title)
                          # StatedNormalization(output[j].title)

InBounds(p, s, e) ==
    /\ p.year # None
    /\ s # None => Val(s) <= Val(p.year)
    /\ e # None => Val(p.year) <= Val(e)

\* C3: with start_year = s and end_year = e both given, every paper returned
\* by _filter_by_year has a year that is not None with s <= year <= e, and
\* every input paper with such a year is returned.
C3_YearFilterBothBounds ==
    (qpc = "dedupe" /\ start_year # None /\ end_year # None) =>
        /\ \A i \in 1..Len(papers) :
              /\ papers[i].year # None
              /\ Val(start_year) <= Val(papers[i].year)
              /\ Val(papers[i].year) <= Val(end_year)
        /\ \A p \in Range(searched) :
              InBounds(p, start_year, end_year) => Count(papers, p) = Count(searched, p)

C3_Witness ==
    /\ qpc = "dedupe"
    /\ start_year = Some(2020)
    /\ end_year = Some(2021)
    /\ Len(searched) = 3
    /\ Len(papers) = 2
    /\ Val(papers[1].year) = 2020
    /\ Val(papers[2].year) = 2021

\* C4: a paper whose year is None is dropped by the year filter if and only
\* if at least one of start_year / end_year is given; with neither bound the
\* filter returns the input list unchanged.
C4_NoneYearDroppedIffBounded ==
    qpc = "dedupe" =>
        /\ (start_year = None /\ end_year = None) => papers = searched
        /\ \A p \in Range(searched) :
              p.year = None =>
                  (p \notin Range(papers) <=> (start_year # None \/ end_year # None))

C4_Witness ==
    /\ qpc = "dedupe"
    /\ start_year = None
    /\ end_year = None
    /\ Len(papers) = 2
    /\ papers[1].year = None
    /\ papers[2].year # None

\* What the request keeps of a paper: everything without bounds, else a year
\* within the bounds given.
Survives(p) == (start_year = None /\ end_year = None) \/ InBounds(p, start_year, end_year)

\* The positions of the aggregated list that survive the filter and are the
\* first such with their key.
Survivors ==
    {i \in 1..Len(searched) :
        /\ Survives(searched[i])
        /\ \A k \in 1..(i - 1) :
              Survives(searched[k]) => Key(searched[k]) # Key(searched[i])}

\* C5: analyze_query filters by year, then dedupes, then truncates, then
\* classifies: at most max_results analyses, pairwise distinct normalized
\* titles, every paper within the bounds given, and the result is the first
\* max_results surviving papers in aggregated order, one analysis per paper.
C5_QueryStepsInOrder ==
    qpc = "done" =>
        LET full == PickFrom(searched, Survivors, 1)
        IN  /\ Len(results) <= max_results
            /\ \A i, j \in 1..Len(results) :
                  i # j => Key(results[i].paper) # Key(results[j].paper)
            /\ \A i \in 1..Len(results) : Survives(results[i].paper)
            /\ Len(results) = (IF Len(full) < max_results THEN Len(full) ELSE max_results)
            /\ \A i \in 1..Len(results) : results[i].paper = full[i]
            /\ \A i \in 1..Len(results) : results[i] = Analysis(papers[i])

\* A request whose filter, dedupe and truncation each drop a paper.
C5_Witness ==
    /\ qpc = "done"
    /\ max_results = 1
    /\ Len(searched) = 3
    /\ ~Survives(searched[1])
    /\ Key(searched[2]) = Key(searched[3])
    /\ Len(results) = 1
    /\ results[1].paper = searched[2]

Adjacent(u, v, es) == <<u, v>> \in es \/ <<v, u>> \in es

\* The nodes reachable from the nodes S along the edges es.
RECURSIVE ReachableFrom(_, _, _)
ReachableFrom(S, V, es) ==
    LET T == S \cup {v \in V : \E u \in S : Adjacent(u, v, es)}
    IN  IF T = S THEN S ELSE ReachableFrom(T, V, es)

Connected(V, es) == \A v \in V : ReachableFrom({v}, V, es) = V

\* C6: for n >= 2 papers the similarity graph is connected: it has at least
\* n-1 edges and every node is reachable from every other node, whatever the
\* pairwise similarities are.
C6_GraphConnected ==
    (gpc = "done" /\ n_papers >= 2) =>
        /\ figure.nodes = 0..(n_papers - 1)
        /\ Cardinality(figure.edges) >= n_papers - 1
        /\ Connected(figure.nodes, figure.edges)

\* C6 as amended: for n >= 2 papers the graph has every paper as a node and
\* at least one edge; when no pair reaches the threshold it is the fallback
\* chain, which has n-1 edges and is connected.  When some pair reaches the
\* threshold no edge is added for the others, and the graph need not be
\* connected.
C6_GraphHasAnEdgeAndChainIsConnected ==
    (gpc = "done" /\ n_papers >= 2) =>
        /\ figure.nodes = 0..(n_papers - 1)
        /\ figure.edges # {}
        /\ (\A pr \in Pairs(n_papers) : sim[pr] < 12) =>
              /\ Cardinality(figure.edges) = n_papers - 1
              /\ Connected(figure.nodes, figure.edges)

C6_Witness ==
    /\ gpc = "done"
    /\ n_papers = 4
    /\ \A pr \in Pairs(n_papers) : sim[pr] < 12
    /\ Cardinality(figure.edges) = 3

\* C7: for n >= 2 papers the edge set is exactly the pairs (i,j), i<j, with
\* similarity >= 0.12, each weighted by that similarity; only when no pair
\* reaches the threshold is it the chain {(i,i+1)} with weight 0.05.  No
\* self-loop, no edge with i >= j.
C7_EdgesAreThresholdPairsOrChain ==
    (gpc = "done" /\ n_papers >= 2) =>
        LET reach == {pr \in Pairs(n_papers) : sim[pr] >= 12}
        IN  /\ \A pr \in figure.edges :
                  pr[1] < pr[2] /\ pr[1] \in figure.nodes /\ pr[2] \in figure.nodes
            /\ DOMAIN figure.weight = figure.edges
            /\ reach # {} =>
                  /\ figure.edges = reach
                  /\ \A pr \in reach : figure.weight[pr] = sim[pr]
            /\ reach = {} =>
                  /\ figure.edges = {<<i, i + 1>> : i \in 0..(n_papers - 2)}
                  /\ \A pr \in figure.edges : figure.weight[pr] = 5

\* Some pairs reach the threshold (one exactly) and some do not.
C7_Witness ==
    /\ gpc = "done"
    /\ n_papers = 4
    /\ sim[<<0, 1>>] = 12
    /\ sim[<<2, 3>>] = 11
    /\ <<0, 1>> \in figure.edges
    /\ Cardinality(figure.edges) = 2

\* C8 as stated: with 0 papers an empty graph with a placeholder message;
\* with exactly 1 paper a graph that contains that single node, a
\* placeholder message and no edges.
C8_OnePaperGraphHasItsNode ==
    gpc = "done" =>
        /\ n_papers = 0 =>
              figure.nodes = {} /\ figure.edges = {} /\ figure.message # None
        /\ n_papers = 1 =>
              figure.nodes = {0} /\ figure.edges = {} /\ figure.message # None

\* C8 as amended: with 0 papers and with exactly 1 paper the result is an
\* empty figure (no node, no edge) with a placeholder message; the message
\* for 1 paper says that at least 2 papers are required.
C8_SmallCasesAreEmptyFigures ==
    (gpc = "done" /\ n_papers <= 1) =>
        /\ figure.nodes = {}
        /\ figure.edges = {}
        /\ figure.message =
              Some(IF n_papers = 0
                   THEN "No papers available for network graph."
                   ELSE "At least 2 papers are required to build a network graph.")

C8_Witness ==
    /\ gpc = "done"
    /\ n_papers = 1
    /\ figure.message # None

Failing(o) == o.kind \in {"timeout", "transport"} \/ (o.kind = "status" /\ o.status \in {429, 500, 502, 503, 504})

\* C9: with attempts=3 and a transport that fails on every call (timeout,
\* transport error or retryable status), _request_json_with_retries issues
\* exactly 3 GET requests, then returns None, and no exception escapes.
C9_ThreeAttemptsThenNone ==
    (rpc = "done" /\ attempts = 3 /\ \A k \in 1..Len(log) : Failing(log[k])) =>
        /\ Len(log) = 3
        /\ result = None
        /\ ~raised

C9_Witness ==
    /\ rpc = "done"
    /\ attempts = 3
    /\ Len(log) = 3
    /\ log[1].kind = "timeout"
    /\ log[2].kind = "transport"
    /\ log[3].kind = "status"
    /\ log[3].status = 503

\* C10: a retry follows each timeout, transport failure or status in
\* {429,500,502,503,504} while attempts remain; the delay slept before the
\* k-th retry is 0.6*k seconds; no delay is slept after the final attempt;
\* a successful response returns its JSON at once, with no further request.
C10_RetryAndLinearBackoff ==
    /\ \A k \in 1..Len(sleeps) : sleeps[k] = 6 * k
    /\ rpc = "loop" =>
          /\ Len(sleeps) = Len(log)
          /\ \A k \in 1..Len(log) : log[k].kind # "ok"
    /\ rpc = "done" =>
          /\ Len(log) > 0 => Len(sleeps) = Len(log) - 1
          /\ \A k \in 1..(Len(log) - 1) : log[k].kind # "ok"
          /\ (Len(log) > 0 /\ log[Len(log)].kind = "ok") => result = Some("json")
          /\ (Len(log) > 0 /\ Failing(log[Len(log)])) =>
                Len(log) = attempts /\ result = None

\* Two failures, each followed by its delay, then a success.
C10_Witness ==
    /\ rpc = "done"
    /\ attempts = 3
    /\ Len(log) = 3
    /\ Failing(log[1])
    /\ Failing(log[2])
    /\ log[3].kind = "ok"
    /\ sleeps = <<6, 12>>
    /\ result = Some("json")

\* A request to the endpoint was started in pass k (finished or under way).
Requested(k, endpoint) ==
    \/ \E i \in 1..Len(calls) : calls[i].pass = k /\ calls[i].endpoint = endpoint
    \/ /\ epass = k
       /\ epc = (IF endpoint = "doi" THEN "doi_fetch" ELSE "title_fetch")

\* C11: in _lookup_semantic_scholar, when a DOI is given and the identifier
\* lookup returns a record, that record is returned immediately and no
\* title-search request is ever issued in that call.
C11_DoiRecordSkipsTitleSearch ==
    \A i \in 1..Len(calls) :
        (calls[i].endpoint = "doi" /\ calls[i].found) =>
            /\ ~Requested(calls[i].pass, "search")
            /\ i = Len(calls)
            /\ epc = "done"
            /\ enrich = Some([pass |-> calls[i].pass, via |-> "doi"])

\* The identifier lookup gives a record in the first pass, a title being there.
C11_Witness ==
    /\ epc = "done"
    /\ titles[1] # None
    /\ Len(calls) = 1
    /\ calls[1] = [pass |-> 1, endpoint |-> "doi", found |-> TRUE]

\* The call of pass k has returned.
PassOver(k) == epass > k \/ (epass = k /\ epc = "done")

\* C12: _lookup_semantic_scholar with no title and no successful DOI result
\* returns None without issuing a title-search request; with neither DOI nor
\* title it issues no HTTP request at all.
C12_NoTitleNoSearch ==
    \A k \in 1..3 :
        titles[k] = None =>
            /\ ~Requested(k, "search")
            /\ doi = None => ~Requested(k, "doi")
            /\ (PassOver(k) /\ ~\E i \in 1..Len(calls) : calls[i].pass = k /\ calls[i].found)
                  => (k = epass => enrich = None)

\* A failed identifier lookup, no title: the first pass returns None.
C12_Witness ==
    /\ doi # None
    /\ titles[1] = None
    /\ epass = 2
    /\ epc = "lookup"
    /\ calls = <<[pass |-> 1, endpoint |-> "doi", found |-> FALSE]>>

\* C14: analyze_uploaded_paper attempts enrichment in at most three passes
\* in the fixed order and stops at the first pass that returns a record: no
\* later pass issues any request, and the record used is the one of the
\* earliest successful pass.
C14_PassesStopAtFirstSuccess ==
    /\ epass \in 1..3
    /\ \A i, j \in 1..Len(calls) :
          i < j => \/ calls[i].pass < calls[j].pass
                   \/ /\ calls[i].pass = calls[j].pass
                      /\ calls[i].endpoint = "doi"
                      /\ calls[j].endpoint = "search"
    /\ \A i \in 1..Len(calls) :
          calls[i].found =>
              /\ i = Len(calls)
              /\ epass = calls[i].pass
              /\ epc = "done"
              /\ enrich # None
              /\ Val(enrich).pass = calls[i].pass
    /\ (epc = "done" /\ enrich = None) =>
          /\ epass = 3
          /\ \A i \in 1..Len(calls) : ~calls[i].found

\* The first pass finds nothing, the title search of the second does.
C14_Witness ==
    /\ epc = "done"
    /\ doi # None
    /\ titles[3] # None
    /\ Len(calls) = 4
    /\ calls[4].pass = 2
    /\ calls[4].endpoint = "search"
    /\ calls[4].found
    /\ enrich = Some([pass |-> 2, via |-> "title"])

\* The tokens of a title, stated on the lowercased text: the maximal runs of
\* characters of [a-z0-9] that are longer than 2 and are not stop-words.
TitleTokens(text) ==
    LET low == Lower(text)
        n == Len(low)
        Starts == {i \in 1..n : /\ low[i] \in LowerAlnum
                                /\ (i = 1 \/ low[i - 1] \notin LowerAlnum)}
        EndOf(i) == CHOOSE j \in i..n :
                        /\ \A k \in i..j : low[k] \in LowerAlnum
                        /\ (j = n \/ low[j + 1] \notin LowerAlnum)
    IN  {t \in {SubSeq(low, i, EndOf(i)) : i \in Starts} :
            Len(t) > 2 /\ t \notin StopWords}

\* Jaccard similarity of the query's and the i-th candidate's token sets, as
\* the pair <<intersection size, union size>>
Jaccard(i) ==
    <<Cardinality(TitleTokens(query_title) \cap TitleTokens(cands[i].title)),
      Cardinality(TitleTokens(query_title) \cup TitleTokens(cands[i].title))>>

\* C13: _best_title_match returns the candidate of maximum Jaccard similarity
\* between the token sets of the query title and of the candidate title
\* (tokens lowercased, alphanumeric, longer than 2 characters, stop-words
\* removed), the earliest in input order among those of maximum score, and
\* the first candidate when the query has no tokens.
C13_BestIsEarliestOfMaximumJaccard ==
    mpc = "done" =>
        /\ TokenSet(query_title) = TitleTokens(query_title)
        /\ \A i \in DOMAIN cands : TokenSet(cands[i].title) = TitleTokens(cands[i].title)
        /\ IF TitleTokens(query_title) = {}
           THEN best = Some(cands[1])
           ELSE \E k \in DOMAIN cands :
                    /\ best = Some(cands[k])
                    /\ \A j \in DOMAIN cands : ~ScoreLess(Jaccard(k), Jaccard(j))
                    /\ \A j \in 1..(k - 1) : ScoreLess(Jaccard(j), Jaccard(k))

\* Three candidates, the second and third tied at the maximum above the first:
\* the second is returned.
C13_Witness ==
    /\ mpc = "done"
    /\ TitleTokens(query_title) # {}
    /\ Len(cands) = 3
    /\ ScoreLess(Jaccard(1), Jaccard(2))
    /\ Jaccard(2) = Jaccard(3)
    /\ cands[2].title # cands[3].title
    /\ best = Some(cands[2])

\* The answer of arXiv to a request for n results
ArxivAnswer(n) ==
    [i \in 1..(IF n <= arxiv_hits THEN n ELSE arxiv_hits) |->
        [source |-> "arXiv", rank |-> i]]

\* C15: when Semantic Scholar raises a connection or transport error during
\* the combined search and arXiv is reachable, safe_search does not raise and
\* returns arXiv's results only, with no item of Semantic Scholar.
C15_S2TransportErrorFallsBackToArxiv ==
    (spc = "done" /\ arxiv_env = "up" /\ s2_env \in {"ConnectionError", "HTTPError"}) =>
        /\ search_error = None
        /\ returned # None
        /\ \A i \in DOMAIN Val(returned) : Val(returned)[i].source = "arXiv"
        /\ Val(returned) = ArxivAnswer(search_max)

\* Semantic Scholar refuses the connection, arXiv is called a second time and
\* its answer, longer than the one of the combined attempt, is returned.
C15_Witness ==
    /\ spc = "done"
    /\ arxiv_env = "up"
    /\ s2_env = "ConnectionError"
    /\ s2_hits # <<>>
    /\ Len(backend_calls) = 3
    /\ backend_calls[2].backend = "Semantic Scholar"
    /\ backend_calls[3] = [backend |-> "arXiv", max_results |-> search_max]
    /\ returned # None
    /\ Len(Val(returned)) > Len(search_papers)

\* C16: safe_search returns a list of papers instead of raising whenever at
\* least one of the two backends is reachable, whichever of them fails.
C16_ReturnsWhileOneBackendIsReachable ==
    (spc = "done" /\ (arxiv_env = "up" \/ s2_env = "up")) =>
        search_error = None /\ returned # None

\* C17: search asks arXiv for max(4, floor(0.6 * max_results)) results, then
\* Semantic Scholar for max_results, in that order, and returns arXiv's
\* results followed by Semantic Scholar's, none removed, merged or reordered.
C17_SearchAsksInOrderAndConcatenates ==
    LET t == CHOOSE t \in 0..(search_max + 4) :
                 \E f \in 0..search_max :
                     /\ 10 * f <= 6 * search_max
                     /\ 6 * search_max < 10 * (f + 1)
                     /\ t = (IF f > 4 THEN f ELSE 4)
    IN  /\ Len(backend_calls) >= 1 =>
               backend_calls[1] = [backend |-> "arXiv", max_results |-> t]
        /\ (Len(backend_calls) >= 2 /\ arxiv_env = "up") =>
               backend_calls[2] = [backend |-> "Semantic Scholar",
                                   max_results |-> search_max]
        /\ (spc = "done" /\ arxiv_env = "up" /\ s2_env = "up") =>
               /\ Len(backend_calls) = 2
               /\ returned # None
               /\ LET r == Val(returned)
                      na == Len(ArxivAnswer(t))
                      limit == IF search_max <= Len(s2_hits) THEN search_max
                               ELSE Len(s2_hits)
                  IN  /\ Len(r) >= na
                      /\ SubSeq(r, 1, na) = ArxivAnswer(t)
                      /\ \A i \in (na + 1)..Len(r) : r[i].source = "Semantic Scholar"
                      /\ \A i, j \in (na + 1)..Len(r) : i < j => r[i].rank < r[j].rank
                      /\ {r[i].rank : i \in (na + 1)..Len(r)} =
                             {k \in 1..limit : s2_hits[k]}

\* max_results 9: arXiv is asked for 5 and gives 5, Semantic Scholar is asked
\* for 9 and two of its three hits have a title and an abstract.
C17_Witness ==
    /\ spc = "done"
    /\ search_max = 9
    /\ backend_calls = <<[backend |-> "arXiv", max_results |-> 5],
                         [backend |-> "Semantic Scholar", max_results |-> 9]>>
    /\ arxiv_hits = 5
    /\ s2_hits = <<TRUE, FALSE, TRUE>>
    /\ returned # None
    /\ Len(Val(returned)) = 7
    /\ Val(returned)[6] = [source |-> "Semantic Scholar", rank |-> 1]
    /\ Val(returned)[7] = [source |-> "Semantic Scholar", rank |-> 3]

\* A text without sentences: empty, or whitespace only
Blank(text) == \A i \in 1..Len(text) : text[i] \in Whitespace

\* C18 as stated: on empty or whitespace-only input extract returns the
\* marker in each of insights, literature_review, method_used, contributions,
\* limitations, future_work, research_gap and citations, and scores nothing.
C18_MarkerInEveryFieldAndCitations ==
    (xpc = "done" /\ Blank(abstract)) =>
        /\ extracted # None
        /\ DOMAIN Val(extracted) =
               {"insights", "literature_review", "method_used", "contributions",
                "limitations", "future_work", "research_gap", "citations"}
        /\ \A k \in DOMAIN Val(extracted) : Val(extracted)[k] = NotEnoughInformation
        /\ section_text = <<>>

\* C18, amended: on empty or whitespace-only input extract returns the
\* marker in each of its seven fields (insights, literature_review,
\* method_used, contributions, limitations, future_work, research_gap), has
\* no citations field, and scores nothing.
C18_MarkerInTheSevenFields ==
    (xpc = "done" /\ Blank(abstract)) =>
        /\ extracted # None
        /\ DOMAIN Val(extracted) =
               {"insights", "literature_review", "method_used", "contributions",
                "limitations", "future_work", "research_gap"}
        /\ \A k \in DOMAIN Val(extracted) : Val(extracted)[k] = NotEnoughInformation
        /\ section_text = <<>>
        /\ future_work = None

\* extract has returned for a text of three whitespace characters.
C18_Witness ==
    /\ xpc = "done"
    /\ abstract = <<" ", "\t", " ">>
    /\ sentences = <<>>
    /\ extracted # None
    /\ Val(extracted)["research_gap"] = NotEnoughInformation

\* The scores of the sentences for a section, in sentence order
RECURSIVE ScoresOf(_, _)
ScoresOf(sents, section) ==
    IF sents = <<>> THEN <<>>
    ELSE <<Score(Head(sents), section)>> \o ScoresOf(Tail(sents), section)

\* The sentences a section shows: those of positive score, by descending
\* score and then by position, cut after the first k
TopSentences(section, k) ==
    LET sc == ScoresOf(sentences, section)
        pos == {j \in 1..Len(sentences) : sc[j] > 0}
        Ahead(a, b) == sc[a] > sc[b] \/ (sc[a] = sc[b] /\ a < b)
        place == [j \in pos |-> 1 + Cardinality({a \in pos : Ahead(a, j)})]
        n == IF Cardinality(pos) < k THEN Cardinality(pos) ELSE k
    IN  [r \in 1..n |-> sentences[CHOOSE j \in pos : place[j] = r]]

\* C19: for each extracted category with a sentence of positive score,
\* _extract_section_text returns the K highest-scoring positive-score
\* sentences (K = 3 for method_used, 2 otherwise) joined by single spaces, by
\* descending score with ties in sentence order; a sentence that is the only
\* positive scorer is the whole output.
C19_TopKPositiveSentencesInStableOrder ==
    xpc = "sections_done" =>
        \A i \in 1..Len(ExtractedSections) :
            LET section == ExtractedSections[i]
                k == IF section = "method_used" THEN 3 ELSE 2
                top == TopSentences(section, 4)
            IN  top # <<>> =>
                    /\ section_text[i] =
                           JoinWithSpace(SubSeq(top, 1, IF Len(top) < k THEN Len(top) ELSE k))
                    /\ Len(top) = 1 => section_text[i] = top[1]

\* Four sentences that all score for method_used, the second and fourth
\* higher than the first and third: the output is the second, the fourth and
\* the first.
C19_Witness ==
    /\ xpc = "sections_done"
    /\ Len(sentences) = 4
    /\ \A j \in 1..4 : Score(sentences[j], "method_used") > 0
    /\ Score(sentences[1], "method_used") < Score(sentences[2], "method_used")
    /\ Score(sentences[3], "method_used") < Score(sentences[4], "method_used")
    /\ section_text[2] = JoinWithSpace(<<sentences[2], sentences[4], sentences[1]>>)

\* C20: when no sentence scores for a category, _extract_section_text
\* returns its fallback: the first two sentences (or the only one) for
\* method_used, the last sentence for contributions, the fixed statements
\* for limitations and future_work, the first sentence for literature_review.
C20_FallbackPerCategory ==
    xpc = "sections_done" =>
        \A i \in 1..Len(ExtractedSections) :
            LET section == ExtractedSections[i]
                n == Len(sentences)
            IN  (\A j \in 1..n : Score(sentences[j], section) = 0) =>
                    /\ section = "literature_review" => section_text[i] = sentences[1]
                    /\ section = "method_used" =>
                           section_text[i] =
                               (IF n = 1 THEN sentences[1]
                                ELSE sentences[1] \o <<" ">> \o sentences[2])
                    /\ section = "contributions" => section_text[i] = sentences[n]
                    /\ section = "limitations" => section_text[i] = LimitationsNotStated
                    /\ section = "future_work" => section_text[i] = FutureWorkNotStated

\* Three different sentences, none scoring for literature_review, method_used
\* or contributions: the first, the first two and the last are returned.
C20_Witness ==
    /\ xpc = "sections_done"
    /\ Len(sentences) = 3
    /\ sentences[1] # sentences[2] /\ sentences[2] # sentences[3]
    /\ sentences[1] # sentences[3]
    /\ \A j \in 1..3 : \A i \in 1..3 : Score(sentences[j], ExtractedSections[i]) = 0
    /\ section_text[1] = sentences[1]
    /\ section_text[2] = sentences[1] \o <<" ">> \o sentences[2]
    /\ section_text[3] = sentences[3]

\* C21: when future_work fell back to its fixed statement, extract replaces
\* it by the text derived from the limitations before research_gap is built:
\* the returned research_gap ends with the returned future_work and holds the
\* fixed statement nowhere, and the returned future_work is never the bare
\* fixed statement.
C21_ResearchGapUsesDerivedFutureWork ==
    (xpc = "done" /\ sentences # <<>>) =>
        LET out == Val(extracted)
        IN  /\ out.future_work # FutureWorkNotStated
            /\ out.research_gap =
                   ResearchGapLead \o out.literature_review \o ResearchGapConstraints
                       \o out.limitations \o ResearchGapForward \o out.future_work
            /\ section_text[5] = FutureWorkNotStated =>
                   /\ out.future_work = InferredFutureLead \o out.limitations
                   /\ ~Contains(out.research_gap, FutureWorkNotStated)

\* No sentence scores for future_work, one scores for limitations: the
\* returned future_work is the derived text over that sentence.
C21_Witness ==
    /\ xpc = "done"
    /\ Len(sentences) = 2
    /\ section_text[5] = FutureWorkNotStated
    /\ Score(sentences[2], "limitations") > 0
    /\ Val(extracted).limitations = sentences[2]
    /\ Val(extracted).future_work = InferredFutureLead \o sentences[2]

\* C29: whenever a sentence scores above 0 for future_work, the returned
\* future_work is the concatenation of the top-2 scoring sentences, whatever
\* words they contain.
C29_ScoredFutureWorkIsReturnedAsIs ==
    (xpc = "done" /\ \E j \in 1..Len(sentences) : Score(sentences[j], "future_work") > 0) =>
        Val(extracted).future_work = JoinWithSpace(TopSentences("future_work", 2))

\* C26: the year filter runs before dedupe: a paper inside the year bounds is
\* never dropped because an earlier paper of the same normalized title lies
\* outside the bounds or has no year; when truncation does not cut it, one
\* paper with its normalized title is in the output.
C26_InRangeTitleSurvivesDedupe ==
    qpc = "done" =>
        \A i \in 1..Len(searched) :
            LET same  == {k \in Survivors : Key(searched[k]) = Key(searched[i])}
                first == CHOOSE k \in same : \A m \in same : k <= m
            IN  (/\ Survives(searched[i])
                 /\ Cardinality({k \in Survivors : k <= first}) <= max_results) =>
                    \E j \in 1..Len(results) :
                        /\ Key(results[j].paper) = Key(searched[i])
                        /\ Survives(results[j].paper)

\* The first paper lies below the start year, the second has its normalized
\* title and lies inside the bounds: the second is returned.
C26_Witness ==
    /\ qpc = "done"
    /\ start_year # None
    /\ Len(searched) >= 2
    /\ searched[1].year # None
    /\ Val(searched[1].year) < Val(start_year)
    /\ Key(searched[1]) = Key(searched[2])
    /\ searched[1].title # searched[2].title
    /\ Survives(searched[2])
    /\ Len(results) >= 1
    /\ results[1].paper = searched[2]

\* C27: a response whose status is an error outside {429,500,502,503,504}
\* ends the call with no value after that one attempt: no sleep follows it
\* and no further GET.
C27_OtherErrorStatusEndsTheCall ==
    \A k \in 1..Len(log) :
        (/\ log[k].kind = "status"
         /\ log[k].status \notin {429, 500, 502, 503, 504}) =>
            /\ rpc = "done"
            /\ k = Len(log)
            /\ Len(sleeps) = k - 1
            /\ result = None

\* C28: the DOI lookup belongs to the first pass: no request goes to the DOI
\* endpoint in the second or the third pass.
C28_DoiLookupInFirstPassOnly ==
    ~Requested(2, "doi") /\ ~Requested(3, "doi")

EndsWith(text, suffix) ==
    /\ Len(text) >= Len(suffix)
    /\ SubSeq(text, Len(text) - Len(suffix) + 1, Len(text)) = suffix

\* What _clean_section_text holds in "result" before the cut to the cap
BeforeCut(key) ==
    IF fmt_in[key] = <<>> THEN <<>>
    ELSE SelectedOrFallback(fmt_in[key], limits[key][1])

\* C23: after _format_section_output every field other than citations is at
\* most its character cap long (900 for insights and research_gap, 780 for
\* the others); a value that was over the cap ends with "..." within the cap.
C23_FieldsWithinCharacterCap ==
    fpc = "done" =>
        \A key \in MergedKeySet \ {"citations"} :
            LET out == Val(cleaned)[key]
                cap == limits[key][2]
                before == BeforeCut(key)
            IN  /\ Len(out) <= cap
                /\ Len(before) > cap => EndsWith(out, Ellipsis)
                /\ Len(before) <= cap => out = before

\* Two long sentences are selected for insights and are over 900 characters
\* together: the field is cut and ends with the marker.
C23_Witness ==
    /\ fpc = "done"
    /\ Len(BeforeCut("insights")) > 900
    /\ Len(Val(cleaned).insights) = 900
    /\ EndsWith(Val(cleaned).insights, Ellipsis)
    /\ Len(Val(cleaned).literature_review) <= 780

\* C24: after _format_section_output every field other than citations holds
\* at most its sentence cap of sentences (5 for insights, 4 for the others),
\* for every input text, and no two sentences that are equal after
\* lowercasing and removing the non-word characters.
C24_SentenceCapAndNoRepeatedSentence ==
    fpc = "done" =>
        \A key \in MergedKeySet \ {"citations"} :
            LET out == Val(cleaned)[key]
                sents == SplitAfterEnd(out)
            IN  /\ out # <<>> => Len(sents) <= limits[key][1]
                /\ \A i, j \in 1..Len(sents) :
                       i < j => NormOf(sents[i]) # NormOf(sents[j])

\* C22: in the upload path, for each of literature_review, method_used,
\* contributions, limitations and future_work, a heading line of the
\* category followed by non-empty text in the uploaded document makes the
\* merged section come from the heading block, not from the extractor; with
\* no heading block the extractor's text is used; research_gap is always
\* the extractor's.
C22_HeadingBlockTakesPrecedence ==
    upc = "done" =>
        LET blocks == _extract_sections_by_headings(upload_text)
            base == extract(_normalize_whitespace(upload_text))
            sections == Val(upload_result).sections
        IN  /\ \A key \in {"literature_review", "method_used", "contributions",
                           "limitations", "future_work"} :
                   sections[key] =
                       FormattedValue(key, IF blocks[key] # None
                                           THEN Strip(Val(blocks[key]))
                                           ELSE base[key])
            /\ sections.research_gap = FormattedValue("research_gap", base.research_gap)

\* C25: enrichment failure never fails an upload analysis: whatever the
\* requests of the three passes gave (timeouts, errors, unusable data), no
\* exception is left standing after a lookup, and the result has every
\* section field, empty paper_url and pdf_url and the source label without
\* enrichment.
C25_EnrichmentFailureKeepsLocalResult ==
    /\ upc \in {"enrich", "done"} /\ epc \in {"lookup", "title", "done"} =>
           ~raised /\ rpc = "idle"
    /\ upc = "done" /\ enrich = None =>
           /\ upload_result # None
           /\ DOMAIN Val(upload_result).sections = MergedKeySet
           /\ \A key \in MergedKeySet \ {"citations"} :
                  Val(upload_result).sections[key] = Val(merged)[key]
           /\ Val(upload_result).paper_url = ""
           /\ Val(upload_result).pdf_url = ""
           /\ Val(upload_result).source = "Uploaded document + local analysis"

\* Every pass asked the DOI endpoint and the search endpoint and none gave a
\* record: the result is the local one.
C25_Witness ==
    /\ upc = "done"
    /\ enrich = None
    /\ Len(calls) = 2 * PassCount
    /\ \A i \in 1..Len(calls) : ~calls[i].found
    /\ Val(upload_result).source = "Uploaded document + local analysis"
    /\ Val(upload_result).sections.literature_review # <<>>

\* The statements _extract_citations_section can return
LocalStatements ==
    {ReferencesDetected, CitationsNotIdentifiable}
        \cup {ReferencesWithLead \o Decimal(n) \o IndexedCitations : n \in 1..9}
        \cup {DetectedLead \o Decimal(n) \o IndexedInDocument : n \in 1..9}

\* C30: the citations field analyze_uploaded_paper returns is always the
\* statement derived from the document, never the citation note of the
\* enrichment outcome, whether the enrichment succeeded or failed.
C30_CitationsIsTheLocalStatement ==
    upc = "done" =>
        LET citations == Val(upload_result).sections.citations
        IN  /\ citations # <<>>
            /\ citations = Val(merged).citations
            /\ citations \in LocalStatements
            /\ citations # CitationNote(None)
            /\ \A record \in EnrichItems : citations # CitationNote(Some(record))

\* The enrichment gave a record and the document holds two distinct
\* markers: citations is the count of the document.
C30_Witness ==
    /\ upc = "done"
    /\ enrich # None
    /\ Val(upload_result).source # "Uploaded document + local analysis"
    /\ Val(upload_result).sections.citations =
           DetectedLead \o Decimal(2) \o IndexedInDocument

====
